---------------------------- MODULE Spec2Model ----------------------------
(***************************************************************************)
(* Entity canonicalization and cross-document conflict detection of the    *)
(* knowledge mapper (server/services/canonicalization.py and               *)
(* server/services/conflict_detection.py).                                 *)
(*                                                                         *)
(* Strings are tuples of one-character strings, so that lower-casing,      *)
(* punctuation stripping, the acronym regexes and difflib's ratio are      *)
(* computed character by character as the Python code computes them.       *)
(* Floats are exact rationals [n, d] with d > 0; every comparison against  *)
(* a decimal literal of the code is done by cross-multiplication.          *)
(***************************************************************************)
EXTENDS Integers, Sequences, FiniteSets, TLC

(***************************************************************************)
(* Characters and the str methods used by the services                     *)
(***************************************************************************)
UpperLetters == <<"A","B","C","D","E","F","G","H","I","J","K","L","M",
                  "N","O","P","Q","R","S","T","U","V","W","X","Y","Z">>

LowerLetters == <<"a","b","c","d","e","f","g","h","i","j","k","l","m",
                  "n","o","p","q","r","s","t","u","v","w","x","y","z">>

Digits == <<"0","1","2","3","4","5","6","7","8","9">>

\* punctuation and white space of the model, in code-point order
Symbols == <<" ", "!", "#", "(", ")", "+", "-", ".">>

Range(s) == {s[k] : k \in DOMAIN s}

IsUpper(c) == c \in Range(UpperLetters)

IsLetter(c) == c \in Range(UpperLetters) \cup Range(LowerLetters)

\* \s of the re module
IsSpace(c) == c = " "

\* \w of the re module
IsWordChar(c) == IsLetter(c) \/ c \in Range(Digits) \/ c = "_"

\* code-point order of the characters: space, punctuation, digits,
\* upper-case letters, underscore, lower-case letters
CharOrder == Symbols \o Digits \o UpperLetters \o <<"_">> \o LowerLetters

Code(c) == CHOOSE k \in DOMAIN CharOrder : CharOrder[k] = c

\* str.lower() on one character
LowerChar(c) ==
    IF IsUpper(c)
    THEN LowerLetters[CHOOSE k \in DOMAIN UpperLetters : UpperLetters[k] = c]
    ELSE c

\* str.upper() on one character
UpperChar(c) ==
    IF c \in Range(LowerLetters)
    THEN UpperLetters[CHOOSE k \in DOMAIN LowerLetters : LowerLetters[k] = c]
    ELSE c

\* str.lower()
Lower(s) == [k \in DOMAIN s |-> LowerChar(s[k])]

\* s[lo-1:hi] of Python, 1-based and inclusive here; empty when lo > hi
Slice(s, lo, hi) == [k \in 1..(hi - lo + 1) |-> s[lo + k - 1]]

\* str.strip(): drop leading and trailing white space
Strip(s) ==
    LET idx == {k \in DOMAIN s : ~IsSpace(s[k])}
    IN  IF idx = {} THEN <<>>
        ELSE Slice(s, CHOOSE k \in idx : \A m \in idx : k <= m,
                      CHOOSE k \in idx : \A m \in idx : k >= m)

\* Python's < on str: lexicographic by code point
RECURSIVE StrLess(_, _)
StrLess(s, t) ==
    IF Len(t) = 0 THEN FALSE
    ELSE IF Len(s) = 0 THEN TRUE
    ELSE IF s[1] # t[1] THEN Code(s[1]) < Code(t[1])
    ELSE StrLess(Tail(s), Tail(t))

\* sorted(list(set_of_strings))
RECURSIVE SortedStrings(_)
SortedStrings(S) ==
    IF S = {} THEN <<>>
    ELSE LET m == CHOOSE x \in S : \A y \in S \ {x} : StrLess(x, y)
         IN  <<m>> \o SortedStrings(S \ {m})

\* the maximal runs of \w characters of s, as <<first, last>> index pairs
WordTokens(s) ==
    {<<lo, hi>> \in (DOMAIN s) \X (DOMAIN s) :
        /\ lo <= hi
        /\ \A k \in lo..hi : IsWordChar(s[k])
        /\ (lo = 1 \/ ~IsWordChar(s[lo - 1]))
        /\ (hi = Len(s) \/ ~IsWordChar(s[hi + 1]))}

(***************************************************************************)
(* difflib.SequenceMatcher(None, a, b).ratio()                             *)
(***************************************************************************)
\* length of the common run of a from i and b from j, inside [.., ahi], [.., bhi]
RECURSIVE MatchLen(_, _, _, _, _, _)
MatchLen(a, b, i, j, ahi, bhi) ==
    IF i > ahi \/ j > bhi \/ a[i] # b[j] THEN 0
    ELSE 1 + MatchLen(a, b, i + 1, j + 1, ahi, bhi)

\* find_longest_match: the longest block, of those the one starting earliest
\* in a, and of those the one starting earliest in b; <<alo, blo, 0>> if none
FindLongestMatch(a, b, alo, ahi, blo, bhi) ==
    LET pairs == (alo..ahi) \X (blo..bhi)
        len(p) == MatchLen(a, b, p[1], p[2], ahi, bhi)
        sizes == {len(p) : p \in pairs} \cup {0}
        best  == CHOOSE k \in sizes : \A m \in sizes : k >= m
        hits  == {p \in pairs : len(p) = best}
        bi    == CHOOSE i \in {p[1] : p \in hits} :
                     \A p \in hits : i <= p[1]
        bj    == CHOOSE j \in {p[2] : p \in {q \in hits : q[1] = bi}} :
                     \A p \in {q \in hits : q[1] = bi} : j <= p[2]
    IN  IF best = 0 THEN <<alo, blo, 0>> ELSE <<bi, bj, best>>

\* total size of get_matching_blocks(): the longest block, then recursively
\* the pieces to its left and to its right
RECURSIVE MatchingSize(_, _, _, _, _, _)
MatchingSize(a, b, alo, ahi, blo, bhi) ==
    IF alo > ahi \/ blo > bhi THEN 0
    ELSE LET m == FindLongestMatch(a, b, alo, ahi, blo, bhi)
         IN  IF m[3] = 0 THEN 0
             ELSE m[3]
                  + MatchingSize(a, b, alo, m[1] - 1, blo, m[2] - 1)
                  + MatchingSize(a, b, m[1] + m[3], ahi, m[2] + m[3], bhi)

\* ratio() = 2.0 * matches / (len(a) + len(b)), and 1.0 for two empty strings
Ratio(a, b) ==
    IF Len(a) + Len(b) = 0 THEN [n |-> 1, d |-> 1]
    ELSE [n |-> 2 * MatchingSize(a, b, 1, Len(a), 1, Len(b)),
          d |-> Len(a) + Len(b)]

(***************************************************************************)
(* Exact arithmetic for the float expressions of the code                  *)
(***************************************************************************)
RECURSIVE GCD(_, _)
GCD(x, y) == IF y = 0 THEN x ELSE GCD(y, x % y)

Abs(x) == IF x < 0 THEN -x ELSE x

Rat(n, d) ==
    LET g == GCD(Abs(n), d) IN [n |-> n \div g, d |-> d \div g]

RatAdd(x, y) == Rat(x.n * y.d + y.n * x.d, x.d * y.d)

RatSub(x, y) == Rat(x.n * y.d - y.n * x.d, x.d * y.d)

RatScale(k, x) == Rat(k * x.n, x.d)

RatDiv(x, k) == Rat(x.n, x.d * k)

RatAbs(x) == [n |-> Abs(x.n), d |-> x.d]

RatLess(x, y) == x.n * y.d < y.n * x.d

RatLeq(x, y) == x.n * y.d <= y.n * x.d

RatMin(x, y) == IF RatLeq(x, y) THEN x ELSE y

(***************************************************************************)
(* Data model (models.core: Entity, SourceSpan, Relationship, Evidence)    *)
(***************************************************************************)
\* Entity.id is derived from name and type: equal name and type, equal id
EntityId(name, type) == <<name, type>>

SourceSpan(doc_id, start, end) == [doc_id |-> doc_id, start |-> start, end |-> end]

Entity(name, type, aliases, embedding, salience, source_spans, summary) ==
    [id |-> EntityId(name, type), name |-> name, type |-> type,
     aliases |-> aliases, embedding |-> embedding, salience |-> salience,
     source_spans |-> source_spans, summary |-> summary]

(***************************************************************************)
(* EntityCanonicalizer: similarity functions                               *)
(***************************************************************************)
\* EntityCanonicalizer.similarity_threshold, default of __init__
SimilarityThreshold == [n |-> 86, d |-> 100]

RECURSIVE Dot(_, _)
Dot(v, w) == IF Len(v) = 0 THEN 0 ELSE v[1] * w[1] + Dot(Tail(v), Tail(w))

\* _calculate_cosine_similarity(vec1, vec2) >= threshold, for threshold > 0.
\* The similarity is max(0, dot / (|a| |b|)), and 0 for an empty vector, for
\* different lengths and for a zero norm; s >= t > 0 is decided exactly as
\* dot > 0 and dot^2 * t.d^2 >= t.n^2 * |a|^2 * |b|^2.
CosineAtLeast(vec1, vec2, t) ==
    IF Len(vec1) = 0 \/ Len(vec2) = 0 \/ Len(vec1) # Len(vec2) THEN FALSE
    ELSE LET dot == Dot(vec1, vec2)
             na  == Dot(vec1, vec1)
             nb  == Dot(vec2, vec2)
         IN  IF na = 0 \/ nb = 0 THEN FALSE
             ELSE /\ dot > 0
                  /\ dot * dot * t.d * t.d >= t.n * t.n * na * nb

\* the token of s at <<lo, hi>>
TokenText(s, tok) == Slice(s, tok[1], tok[2])

\* acronym_pattern r'\b[A-Z]{2,}\b' .findall(text): the word tokens made of
\* two or more upper-case letters only
StandaloneAcronyms(text) ==
    {TokenText(text, tok) : tok \in
        {t \in WordTokens(text) :
            /\ t[2] - t[1] + 1 >= 2
            /\ \A k \in t[1]..t[2] : IsUpper(text[k])}}

\* parenthetical_pattern r'\(([^)]+)\)' .findall(text), scanning from k
RECURSIVE ParenContents(_, _)
ParenContents(text, k) ==
    IF k > Len(text) THEN {}
    ELSE IF text[k] # "(" THEN ParenContents(text, k + 1)
    ELSE LET closes == {q \in (k + 1)..Len(text) : text[q] = ")"}
         IN  IF closes = {} THEN {}
             ELSE LET q == CHOOSE c \in closes : \A m \in closes : c <= m
                  IN  IF q = k + 1 THEN ParenContents(text, k + 1)
                      ELSE {Slice(text, k + 1, q - 1)}
                           \cup ParenContents(text, q + 1)

\* acronym_pattern.match(s): s starts with two or more upper-case letters
\* that end at a word boundary
StartsWithAcronym(s) ==
    \E t \in WordTokens(s) :
        /\ t[1] = 1
        /\ t[2] >= 2
        /\ \A k \in t[1]..t[2] : IsUpper(s[k])

\* _extract_acronyms
ExtractAcronyms(text) ==
    StandaloneAcronyms(text)
    \cup {Strip(m) : m \in {c \in ParenContents(text, 1) :
                               StartsWithAcronym(Strip(c))}}

StopWords == {<<"t","h","e">>, <<"o","f">>, <<"a","n","d">>, <<"o","r">>,
              <<"i","n">>, <<"o","n">>, <<"a","t">>, <<"t","o">>,
              <<"f","o","r">>, <<"w","i","t","h">>, <<"b","y">>}

\* re.findall(r'\b[A-Za-z]+\b', full_name), in order of position
LetterWords(full_name) ==
    LET toks == {t \in WordTokens(full_name) :
                    \A k \in t[1]..t[2] : IsLetter(full_name[k])}
        RECURSIVE InOrder(_)
        InOrder(T) ==
            IF T = {} THEN <<>>
            ELSE LET f == CHOOSE t \in T : \A u \in T : t[1] <= u[1]
                 IN  <<TokenText(full_name, f)>> \o InOrder(T \ {f})
    IN  InOrder(toks)

\* ''.join(word[0].upper() for word in words)
Initials(words) == [k \in DOMAIN words |-> UpperChar(words[k][1])]

\* _generate_acronym_candidates
GenerateAcronymCandidates(full_name) ==
    LET words     == LetterWords(full_name)
        important == SelectSeq(words, LAMBDA w : Lower(w) \notin StopWords)
    IN  IF Len(words) >= 2
        THEN {Initials(words)}
             \cup (IF Len(important) >= 2 /\ Len(important) # Len(words)
                   THEN {Initials(important)} ELSE {})
        ELSE {}

\* normalize() of _is_alias_match: re.sub(r'[^\w\s]', '', text.lower().strip())
NormalizeName(text) ==
    LET t == Strip(Lower(text))
    IN  SelectSeq(t, LAMBDA c : IsWordChar(c) \/ IsSpace(c))

\* the lexical-similarity threshold of _is_alias_match
LexicalMatchThreshold == [n |-> 9, d |-> 10]

\* _is_alias_match with the lexical-similarity loop alone, without the tests
\* on exact and acronym matches
IsAliasMatchLexicalOnly(name1, name2, aliases1, aliases2) ==
    LET all_names1 == ({NormalizeName(name1)}
                       \cup {NormalizeName(a) : a \in Range(aliases1)}) \ {<<>>}
        all_names2 == ({NormalizeName(name2)}
                       \cup {NormalizeName(a) : a \in Range(aliases2)}) \ {<<>>}
    IN  \E n1 \in all_names1, n2 \in all_names2 :
            /\ Len(n1) >= 3
            /\ Len(n2) >= 3
            /\ RatLeq(LexicalMatchThreshold, Ratio(n1, n2))

\* _is_alias_match
IsAliasMatch(name1, name2, aliases1, aliases2) ==
    LET all_names1 == ({NormalizeName(name1)}
                       \cup {NormalizeName(a) : a \in Range(aliases1)}) \ {<<>>}
        all_names2 == ({NormalizeName(name2)}
                       \cup {NormalizeName(a) : a \in Range(aliases2)}) \ {<<>>}
        acronyms1  == UNION {ExtractAcronyms(n) \cup GenerateAcronymCandidates(n) :
                                n \in {name1} \cup Range(aliases1)}
        acronyms2  == UNION {ExtractAcronyms(n) \cup GenerateAcronymCandidates(n) :
                                n \in {name2} \cup Range(aliases2)}
        normalized_acronyms1 == {NormalizeName(a) : a \in acronyms1}
        normalized_acronyms2 == {NormalizeName(a) : a \in acronyms2}
    IN  \/ all_names1 \cap all_names2 # {}
        \/ normalized_acronyms1 \cap all_names2 # {}
        \/ normalized_acronyms2 \cap all_names1 # {}
        \/ normalized_acronyms1 \cap normalized_acronyms2 # {}
        \/ \E n1 \in all_names1, n2 \in all_names2 :
              /\ Len(n1) >= 3
              /\ Len(n2) >= 3
              /\ RatLeq(LexicalMatchThreshold, Ratio(n1, n2))

\* _should_merge_entities without the test of the types
ShouldMergeIgnoringType(entity1, entity2) ==
    \/ /\ Len(entity1.embedding) > 0
       /\ Len(entity2.embedding) > 0
       /\ CosineAtLeast(entity1.embedding, entity2.embedding,
                        SimilarityThreshold)
    \/ IsAliasMatch(entity1.name, entity2.name,
                    entity1.aliases, entity2.aliases)

\* _should_merge_entities: the boolean of the returned pair
ShouldMergeEntities(entity1, entity2) ==
    IF entity1.type # entity2.type THEN FALSE
    ELSE \/ /\ Len(entity1.embedding) > 0
            /\ Len(entity2.embedding) > 0
            /\ CosineAtLeast(entity1.embedding, entity2.embedding,
                             SimilarityThreshold)
         \/ IsAliasMatch(entity1.name, entity2.name,
                         entity1.aliases, entity2.aliases)

\* the reason with the alias test made before the test of the embeddings
ShouldMergeReasonAliasFirst(entity1, entity2) ==
    IF entity1.type # entity2.type THEN "Different entity types"
    ELSE IF IsAliasMatch(entity1.name, entity2.name,
                         entity1.aliases, entity2.aliases)
    THEN "Alias/acronym match"
    ELSE IF /\ Len(entity1.embedding) > 0
            /\ Len(entity2.embedding) > 0
            /\ CosineAtLeast(entity1.embedding, entity2.embedding,
                             SimilarityThreshold)
    THEN "Vector similarity"
    ELSE "No match criteria met"

\* _should_merge_entities: the reason of the returned pair
ShouldMergeReason(entity1, entity2) ==
    IF entity1.type # entity2.type THEN "Different entity types"
    ELSE IF /\ Len(entity1.embedding) > 0
            /\ Len(entity2.embedding) > 0
            /\ CosineAtLeast(entity1.embedding, entity2.embedding,
                             SimilarityThreshold)
    THEN "Vector similarity"
    ELSE IF IsAliasMatch(entity1.name, entity2.name,
                         entity1.aliases, entity2.aliases)
    THEN "Alias/acronym match"
    ELSE "No match criteria met"

(***************************************************************************)
(* EntityCanonicalizer._merge_entities                                     *)
(***************************************************************************)
\* the result of a call that raises CanonicalizeError
CanonicalizeError == "CanonicalizeError"

\* str(n) for n >= 0
RECURSIVE IntToStr(_)
IntToStr(n) ==
    IF n < 10 THEN <<Digits[n + 1]>>
    ELSE IntToStr(n \div 10) \o <<Digits[(n % 10) + 1]>>

\* a descending sort that puts, of members with equal salience, the one
\* later in the list first
RECURSIVE SortedBySalienceLastFirst(_)
SortedBySalienceLastFirst(entities) ==
    IF Len(entities) = 0 THEN <<>>
    ELSE LET top == CHOOSE k \in DOMAIN entities :
                        /\ \A m \in DOMAIN entities :
                               RatLeq(entities[m].salience, entities[k].salience)
                        /\ \A m \in (k + 1)..Len(entities) :
                               RatLess(entities[m].salience, entities[k].salience)
             rest == [m \in 1..(Len(entities) - 1) |->
                         IF m < top THEN entities[m] ELSE entities[m + 1]]
         IN  <<entities[top]>> \o SortedBySalienceLastFirst(rest)

\* sorted(entities, key=lambda e: e.salience, reverse=True): stable, so of
\* members with equal salience the one earlier in the list comes first
RECURSIVE SortedBySalience(_)
SortedBySalience(entities) ==
    IF Len(entities) = 0 THEN <<>>
    ELSE LET top == CHOOSE k \in DOMAIN entities :
                        /\ \A m \in DOMAIN entities :
                               RatLeq(entities[m].salience, entities[k].salience)
                        /\ \A m \in 1..(k - 1) :
                               RatLess(entities[m].salience, entities[k].salience)
             rest == [m \in 1..(Len(entities) - 1) |->
                         IF m < top THEN entities[m] ELSE entities[m + 1]]
         IN  <<entities[top]>> \o SortedBySalience(rest)

\* a concatenation that puts the spans of the first member last
RECURSIVE ConcatSpansFirstLast(_)
ConcatSpansFirstLast(ents) ==
    IF Len(ents) = 0 THEN <<>>
    ELSE ConcatSpansFirstLast(Tail(ents)) \o ents[1].source_spans

RECURSIVE ConcatSpans(_)
ConcatSpans(ents) ==
    IF Len(ents) = 0 THEN <<>>
    ELSE ents[1].source_spans \o ConcatSpans(Tail(ents))

RECURSIVE SumWeightedSalience(_)
SumWeightedSalience(ents) ==
    IF Len(ents) = 0 THEN [n |-> 0, d |-> 1]
    ELSE LET weight == IF Len(ents[1].source_spans) > 0
                       THEN Len(ents[1].source_spans) ELSE 1
         IN  RatAdd(RatScale(weight, ents[1].salience),
                    SumWeightedSalience(Tail(ents)))

RECURSIVE SumWeights(_)
SumWeights(ents) ==
    IF Len(ents) = 0 THEN 0
    ELSE (IF Len(ents[1].source_spans) > 0
          THEN Len(ents[1].source_spans) ELSE 1) + SumWeights(Tail(ents))

RECURSIVE SumSalience(_)
SumSalience(ents) ==
    IF Len(ents) = 0 THEN [n |-> 0, d |-> 1]
    ELSE RatAdd(ents[1].salience, SumSalience(Tail(ents)))

\* a bonus of 0.05 per further document without the cap at 0.1
CrossDocumentBonusUncapped(document_count) ==
    Rat((document_count - 1) * 5, 100)

\* cross_document_bonus = min(0.1, (document_count - 1) * 0.05)
CrossDocumentBonus(document_count) ==
    RatMin([n |-> 1, d |-> 10], Rat((document_count - 1) * 5, 100))

\* final_salience of _merge_entities
MergedSalience(sorted_entities, merged_source_spans, document_count) ==
    LET bonus == CrossDocumentBonus(document_count)
        base  == IF Len(merged_source_spans) > 0
                 THEN RatDiv(SumWeightedSalience(sorted_entities),
                             SumWeights(sorted_entities))
                 ELSE RatDiv(SumSalience(sorted_entities), Len(sorted_entities))
    IN  RatMin([n |-> 1, d |-> 1], RatAdd(base, bonus))

\* merged_aliases without merged_aliases.update(entity.aliases): the declared
\* aliases of the other members are left out
MergedAliasesWithoutUpdate(sorted_entities) ==
    LET primary_entity == sorted_entities[1]
        others == {sorted_entities[k] : k \in 2..Len(sorted_entities)}
    IN  Range(primary_entity.aliases)
        \cup {e.name : e \in {o \in others :
                                 Lower(o.name) # Lower(primary_entity.name)}}

\* merged_aliases of _merge_entities
MergedAliases(sorted_entities) ==
    LET primary_entity == sorted_entities[1]
        others == {sorted_entities[k] : k \in 2..Len(sorted_entities)}
    IN  Range(primary_entity.aliases)
        \cup {e.name : e \in {o \in others :
                                 Lower(o.name) # Lower(primary_entity.name)}}
        \cup UNION {Range(e.aliases) : e \in others}

AppearsIn == <<" ","(","a","p","p","e","a","r","s"," ","i","n"," ">>

DocumentsSuffix == <<" ","d","o","c","u","m","e","n","t","s",")">>

\* a summary that gets the suffix for every group seen in a document
EnhancedSummaryFromOneDocument(primary_entity, document_count) ==
    IF document_count >= 1
    THEN primary_entity.summary \o AppearsIn \o IntToStr(document_count)
         \o DocumentsSuffix
    ELSE primary_entity.summary

\* enhanced_summary of _merge_entities
EnhancedSummary(primary_entity, document_count) ==
    IF document_count > 1
    THEN primary_entity.summary \o AppearsIn \o IntToStr(document_count)
         \o DocumentsSuffix
    ELSE primary_entity.summary

\* _merge_entities without the early return for a single entity
MergeEntitiesWithoutSingleReturn(entities) ==
    IF Len(entities) = 0 THEN CanonicalizeError
    ELSE LET sorted_entities == SortedBySalience(entities)
             primary_entity  == sorted_entities[1]
             merged_source_spans == ConcatSpans(sorted_entities)
             document_sources == {sp.doc_id : sp \in Range(merged_source_spans)}
             document_count  == Cardinality(document_sources)
         IN  [id           |-> primary_entity.id,
              name         |-> primary_entity.name,
              type         |-> primary_entity.type,
              aliases      |-> SortedStrings(MergedAliases(sorted_entities)),
              embedding    |-> primary_entity.embedding,
              salience     |-> MergedSalience(sorted_entities,
                                              merged_source_spans,
                                              document_count),
              source_spans |-> merged_source_spans,
              summary      |-> EnhancedSummary(primary_entity, document_count)]

\* _merge_entities
MergeEntities(entities) ==
    IF Len(entities) = 0 THEN CanonicalizeError
    ELSE IF Len(entities) = 1 THEN entities[1]
    ELSE LET sorted_entities == SortedBySalience(entities)
             primary_entity  == sorted_entities[1]
             merged_source_spans == ConcatSpans(sorted_entities)
             document_sources == {sp.doc_id : sp \in Range(merged_source_spans)}
             document_count  == Cardinality(document_sources)
         IN  [id           |-> primary_entity.id,
              name         |-> primary_entity.name,
              type         |-> primary_entity.type,
              aliases      |-> SortedStrings(MergedAliases(sorted_entities)),
              embedding    |-> primary_entity.embedding,
              salience     |-> MergedSalience(sorted_entities,
                                              merged_source_spans,
                                              document_count),
              source_spans |-> merged_source_spans,
              summary      |-> EnhancedSummary(primary_entity, document_count)]

(***************************************************************************)
(* EntityCanonicalizer.canonicalize_entities                               *)
(***************************************************************************)
\* the keys of entities_by_type, in insertion order
RECURSIVE TypesInOrder(_, _, _)
TypesInOrder(entities, k, seen) ==
    IF k > Len(entities) THEN <<>>
    ELSE IF entities[k].type \in seen THEN TypesInOrder(entities, k + 1, seen)
    ELSE <<entities[k].type>>
         \o TypesInOrder(entities, k + 1, seen \cup {entities[k].type})

\* the positions, in input order, of the entities of one type
RECURSIVE PositionsOfType(_, _, _)
PositionsOfType(entities, k, type) ==
    IF k > Len(entities) THEN <<>>
    ELSE (IF entities[k].type = type THEN <<k>> ELSE <<>>)
         \o PositionsOfType(entities, k + 1, type)

\* entities_by_type.items(): one bucket of input positions per type
EntitiesByType(entities) ==
    LET types == TypesInOrder(entities, 1, {})
    IN  [b \in DOMAIN types |-> PositionsOfType(entities, 1, types[b])]

\* the inner loop, comparing the candidate with every member of the open
\* group instead of with the seed alone
RECURSIVE CandidateLoopAnyMember(_, _, _, _, _, _)
CandidateLoopAnyMember(entities, type_entities, i, j, current_group, processed_ids) ==
    IF j > Len(type_entities)
    THEN [group |-> current_group, processed |-> processed_ids]
    ELSE LET other_entity == entities[type_entities[j]]
         IN  IF other_entity.id \in processed_ids
             THEN CandidateLoopAnyMember(entities, type_entities, i, j + 1,
                                         current_group, processed_ids)
             ELSE IF \E m \in Range(current_group) :
                         ShouldMergeEntities(entities[m], other_entity)
             THEN CandidateLoopAnyMember(entities, type_entities, i, j + 1,
                                         Append(current_group, type_entities[j]),
                                         processed_ids \cup {other_entity.id})
             ELSE CandidateLoopAnyMember(entities, type_entities, i, j + 1,
                                         current_group, processed_ids)

\* the inner loop over type_entities[i+1:], from position j of the bucket
RECURSIVE CandidateLoop(_, _, _, _, _, _)
CandidateLoop(entities, type_entities, i, j, current_group, processed_ids) ==
    IF j > Len(type_entities)
    THEN [group |-> current_group, processed |-> processed_ids]
    ELSE LET entity       == entities[type_entities[i]]
             other_entity == entities[type_entities[j]]
         IN  IF other_entity.id \in processed_ids
             THEN CandidateLoop(entities, type_entities, i, j + 1,
                                current_group, processed_ids)
             ELSE IF ShouldMergeEntities(entity, other_entity)
             THEN CandidateLoop(entities, type_entities, i, j + 1,
                                Append(current_group, type_entities[j]),
                                processed_ids \cup {other_entity.id})
             ELSE CandidateLoop(entities, type_entities, i, j + 1,
                                current_group, processed_ids)

\* the outer loop without the test entity.id in processed_ids: every entity
\* of the bucket opens a group
RECURSIVE SeedLoopWithoutSkip(_, _, _, _, _)
SeedLoopWithoutSkip(entities, type_entities, i, merge_groups, processed_ids) ==
    IF i > Len(type_entities)
    THEN [groups |-> merge_groups, processed |-> processed_ids]
    ELSE LET Continue(scan) ==
                 SeedLoopWithoutSkip(entities, type_entities, i + 1,
                                     Append(merge_groups, scan.group),
                                     scan.processed)
         IN  Continue(CandidateLoop(entities, type_entities, i, i + 1,
                                    <<type_entities[i]>>,
                                    processed_ids
                                        \cup {entities[type_entities[i]].id}))

\* the outer loop over type_entities, from position i of the bucket
RECURSIVE SeedLoop(_, _, _, _, _)
SeedLoop(entities, type_entities, i, merge_groups, processed_ids) ==
    IF i > Len(type_entities)
    THEN [groups |-> merge_groups, processed |-> processed_ids]
    ELSE LET entity == entities[type_entities[i]]
         IN  IF entity.id \in processed_ids
             THEN SeedLoop(entities, type_entities, i + 1,
                           merge_groups, processed_ids)
             ELSE LET Continue(scan) ==
                          SeedLoop(entities, type_entities, i + 1,
                                   Append(merge_groups, scan.group),
                                   scan.processed)
                  IN  Continue(CandidateLoop(entities, type_entities, i, i + 1,
                                             <<type_entities[i]>>,
                                             processed_ids \cup {entity.id}))

\* the merge groups of all type buckets, bucket after bucket; a group is the
\* list of the input positions of its members, the seed first
RECURSIVE TypeLoop(_, _, _, _, _)
TypeLoop(entities, buckets, b, all_groups, processed_ids) ==
    IF b > Len(buckets) THEN all_groups
    ELSE LET Continue(res) ==
                 TypeLoop(entities, buckets, b + 1,
                          all_groups \o res.groups, res.processed)
         IN  Continue(SeedLoop(entities, buckets[b], 1, <<>>, processed_ids))

MergeGroups(entities) ==
    TypeLoop(entities, EntitiesByType(entities), 1, <<>>, {})

GroupMembers(entities, group) == [k \in DOMAIN group |-> entities[group[k]]]

\* canonical_entities: per group, the member itself or the merged entity
CanonicalEntities(entities, groups) ==
    [g \in DOMAIN groups |->
        IF Len(groups[g]) = 1 THEN entities[groups[g][1]]
        ELSE MergeEntities(GroupMembers(entities, groups[g]))]

\* the loop of find_similar_entities over vector_results[k..last]
RECURSIVE SimilarAmong(_, _, _, _)
SimilarAmong(entity, vector_results, k, last) ==
    IF k > last THEN <<>>
    ELSE (IF /\ vector_results[k].id # entity.id
             /\ ShouldMergeEntities(entity, vector_results[k])
          THEN <<vector_results[k]>> ELSE <<>>)
         \o SimilarAmong(entity, vector_results, k + 1, last)

\* find_similar_entities with an except branch that drops what was collected
FindSimilarEntitiesOrNothing(entity, vector_results, failure_at) ==
    IF Len(entity.embedding) = 0 THEN <<>>
    ELSE IF failure_at <= Len(vector_results) THEN <<>>
    ELSE SimilarAmong(entity, vector_results, 1, Len(vector_results))

\* find_similar_entities, where vector_results is what the similarity search
\* returns and failure_at says where an exception is raised: 0 for the
\* search itself, k for the handling of result k, Len(vector_results) + 1
\* for nowhere
FindSimilarEntities(entity, vector_results, failure_at) ==
    IF Len(entity.embedding) = 0 THEN <<>>
    ELSE IF failure_at = 0 THEN <<>>
    ELSE IF failure_at <= Len(vector_results)
    THEN SimilarAmong(entity, vector_results, 1, failure_at - 1)
    ELSE SimilarAmong(entity, vector_results, 1, Len(vector_results))

\* canonicalize_entity, given what find_similar_entities returned
CanonicalizeEntity(entity, similar_entities) ==
    IF Len(similar_entities) = 0 THEN entity
    ELSE MergeEntities(<<entity>> \o similar_entities)

\* canonicalize_entities with an except branch that returns nothing
CanonicalizeEntitiesOrNothing(entities, internal_error) ==
    IF Len(entities) = 0 THEN <<>>
    ELSE IF internal_error THEN <<>>
    ELSE CanonicalEntities(entities, MergeGroups(entities))

\* canonicalize_entities, the value returned: the canonical entities, or the
\* original list when its try block raises
CanonicalizeEntitiesOrOriginal(entities, internal_error) ==
    IF Len(entities) = 0 THEN <<>>
    ELSE IF internal_error THEN entities
    ELSE CanonicalEntities(entities, MergeGroups(entities))

(***************************************************************************)
(* ConflictDetector                                                        *)
(***************************************************************************)
\* ConflictDetector.similarity_threshold, default of __init__
ConflictThreshold == [n |-> 7, d |-> 10]

\* _extract_conflicting_attributes: the kinds of the flags, in order
ExtractConflictingAttributes(entity1, entity2) ==
    LET name_similarity    == Ratio(Lower(entity1.name), Lower(entity2.name))
        salience_diff      == RatAbs(RatSub(entity1.salience, entity2.salience))
        summary_similarity == Ratio(Lower(entity1.summary), Lower(entity2.summary))
    IN  (IF /\ Lower(entity1.name) # Lower(entity2.name)
            /\ RatLess(ConflictThreshold, name_similarity)
         THEN <<"Name variation">> ELSE <<>>)
        \o (IF RatLess([n |-> 3, d |-> 10], salience_diff)
            THEN <<"Salience difference">> ELSE <<>>)
        \o (IF /\ Len(entity1.summary) > 0
               /\ Len(entity2.summary) > 0
               /\ RatLess(summary_similarity, [n |-> 1, d |-> 2])
               /\ Len(entity1.summary) > 10
               /\ Len(entity2.summary) > 10
            THEN <<"Summary difference">> ELSE <<>>)

\* _get_document_sources
GetDocumentSources(entity) == {sp.doc_id : sp \in Range(entity.source_spans)}

\* _should_create_comparison_relationship without the test docs1 & docs2:
\* entities that share a document are compared
ShouldCompareIgnoringOverlap(entity1, entity2) ==
    LET Decide(docs1, docs2, conflicts, name_similarity) ==
        IF entity1.type # entity2.type
        THEN [ok |-> FALSE, reason |-> "Different entity types", conflicts |-> <<>>]
        ELSE IF docs1 = {} \/ docs2 = {} \/ docs1 = docs2
        THEN [ok |-> FALSE, reason |-> "Same document sources", conflicts |-> <<>>]
        ELSE IF Len(conflicts) = 0
        THEN [ok |-> FALSE, reason |-> "No conflicting attributes found",
              conflicts |-> <<>>]
        ELSE IF RatLeq([n |-> 1, d |-> 2], name_similarity) /\ Len(conflicts) >= 1
        THEN [ok |-> TRUE, reason |-> "Similar names with conflicts",
              conflicts |-> conflicts]
        ELSE IF RatLess([n |-> 3, d |-> 10], name_similarity) /\ Len(conflicts) >= 2
        THEN [ok |-> TRUE, reason |-> "Multiple conflicts with name overlap",
              conflicts |-> conflicts]
        ELSE [ok |-> FALSE, reason |-> "Insufficient similarity for comparison",
              conflicts |-> conflicts]
    IN  Decide(GetDocumentSources(entity1), GetDocumentSources(entity2),
               ExtractConflictingAttributes(entity1, entity2),
               Ratio(Lower(entity1.name), Lower(entity2.name)))

\* _should_create_comparison_relationship without the second way to accept,
\* the one for names of similarity above 0.3 with two conflicts
ShouldCompareSimilarNamesOnly(entity1, entity2) ==
    LET Decide(docs1, docs2, conflicts, name_similarity) ==
        IF entity1.type # entity2.type
        THEN [ok |-> FALSE, reason |-> "Different entity types", conflicts |-> <<>>]
        ELSE IF docs1 = {} \/ docs2 = {} \/ docs1 = docs2
        THEN [ok |-> FALSE, reason |-> "Same document sources", conflicts |-> <<>>]
        ELSE IF docs1 \cap docs2 # {}
        THEN [ok |-> FALSE, reason |-> "Overlapping document sources",
              conflicts |-> <<>>]
        ELSE IF Len(conflicts) = 0
        THEN [ok |-> FALSE, reason |-> "No conflicting attributes found",
              conflicts |-> <<>>]
        ELSE IF RatLeq([n |-> 1, d |-> 2], name_similarity) /\ Len(conflicts) >= 1
        THEN [ok |-> TRUE, reason |-> "Similar names with conflicts",
              conflicts |-> conflicts]
        ELSE [ok |-> FALSE, reason |-> "Insufficient similarity for comparison",
              conflicts |-> conflicts]
    IN  Decide(GetDocumentSources(entity1), GetDocumentSources(entity2),
               ExtractConflictingAttributes(entity1, entity2),
               Ratio(Lower(entity1.name), Lower(entity2.name)))

\* _should_create_comparison_relationship
ShouldCreateComparisonRelationship(entity1, entity2) ==
    LET Decide(docs1, docs2, conflicts, name_similarity) ==
        IF entity1.type # entity2.type
        THEN [ok |-> FALSE, reason |-> "Different entity types", conflicts |-> <<>>]
        ELSE IF docs1 = {} \/ docs2 = {} \/ docs1 = docs2
        THEN [ok |-> FALSE, reason |-> "Same document sources", conflicts |-> <<>>]
        ELSE IF docs1 \cap docs2 # {}
        THEN [ok |-> FALSE, reason |-> "Overlapping document sources",
              conflicts |-> <<>>]
        ELSE IF Len(conflicts) = 0
        THEN [ok |-> FALSE, reason |-> "No conflicting attributes found",
              conflicts |-> <<>>]
        ELSE IF RatLeq([n |-> 1, d |-> 2], name_similarity) /\ Len(conflicts) >= 1
        THEN [ok |-> TRUE, reason |-> "Similar names with conflicts",
              conflicts |-> conflicts]
        ELSE IF RatLess([n |-> 3, d |-> 10], name_similarity) /\ Len(conflicts) >= 2
        THEN [ok |-> TRUE, reason |-> "Multiple conflicts with name overlap",
              conflicts |-> conflicts]
        ELSE [ok |-> FALSE, reason |-> "Insufficient similarity for comparison",
              conflicts |-> conflicts]
    IN  Decide(GetDocumentSources(entity1), GetDocumentSources(entity2),
               ExtractConflictingAttributes(entity1, entity2),
               Ratio(Lower(entity1.name), Lower(entity2.name)))

\* the pairs type_entities[i], type_entities[i+1:] of one bucket, in scan order
RECURSIVE BucketPairs(_, _, _)
BucketPairs(type_entities, i, j) ==
    IF i > Len(type_entities) THEN <<>>
    ELSE IF j > Len(type_entities) THEN BucketPairs(type_entities, i + 1, i + 2)
    ELSE <<(<<type_entities[i], type_entities[j]>>)>>
         \o BucketPairs(type_entities, i, j + 1)

RECURSIVE AllBucketPairs(_, _)
AllBucketPairs(buckets, b) ==
    IF b > Len(buckets) THEN <<>>
    ELSE BucketPairs(buckets[b], 1, 2) \o AllBucketPairs(buckets, b + 1)

\* the body of the two loops of detect_conflicts_in_entities: the conflict
\* pairs appended from pair k of the scan on
RECURSIVE ConflictPairsFrom(_, _, _)
ConflictPairsFrom(entities, pairs, k) ==
    IF k > Len(pairs) THEN <<>>
    ELSE LET Found(entity1, entity2, res) ==
                 IF res.ok
                 THEN <<[entity1 |-> entity1, entity2 |-> entity2,
                         reason |-> res.reason, conflicts |-> res.conflicts]>>
                 ELSE <<>>
         IN  Found(entities[pairs[k][1]], entities[pairs[k][2]],
                   ShouldCreateComparisonRelationship(
                       entities[pairs[k][1]], entities[pairs[k][2]]))
             \o ConflictPairsFrom(entities, pairs, k + 1)

\* detect_conflicts_in_entities
DetectConflictsInEntities(entities) ==
    ConflictPairsFrom(entities, AllBucketPairs(EntitiesByType(entities), 1), 1)

\* confidence=0.8 of create_comparison_relationships
ComparisonConfidence == [n |-> 8, d |-> 10]

\* entity.summary[:100]
SummaryQuoteLimit == 100

Label1 == <<"E","n","t","i","t","y"," ","1">>

Label2 == <<"E","n","t","i","t","y"," ","2">>

\* an evidence item that quotes the whole summary
EvidenceOfWholeSummary(entity, label) ==
    IF Len(entity.source_spans) > 0
    THEN <<[doc_id |-> entity.source_spans[1].doc_id,
            quote  |-> label \o <<":", " ">> \o entity.name \o <<" ", "-", " ">>
                       \o entity.summary,
            offset |-> entity.source_spans[1].start]>>
    ELSE <<>>

\* Evidence(doc_id=span.doc_id,
\*          quote=f"{label}: {entity.name} - {entity.summary[:100]}",
\*          offset=span.start), for an entity that has source spans
EvidenceOf(entity, label) ==
    IF Len(entity.source_spans) > 0
    THEN <<[doc_id |-> entity.source_spans[1].doc_id,
            quote  |-> label \o <<":", " ">> \o entity.name \o <<" ", "-", " ">>
                       \o SubSeq(entity.summary, 1,
                                 IF Len(entity.summary) < SummaryQuoteLimit
                                 THEN Len(entity.summary) ELSE SummaryQuoteLimit),
            offset |-> entity.source_spans[1].start]>>
    ELSE <<>>

\* Relationship(...) rejects a relationship from an entity to itself with a
\* ValueError (test_relationship_model)
RelationshipRejected(from_entity, to_entity) == from_entity = to_entity

Relationship(from_entity, to_entity, predicate, confidence, evidence, directional) ==
    [from_entity |-> from_entity, to_entity |-> to_entity,
     predicate |-> predicate, confidence |-> confidence,
     evidence |-> evidence, directional |-> directional]

\* one conflict pair without the second Relationship(...), the reverse one
PairRelationshipsOneWay(pair) ==
    LET evidence == EvidenceOf(pair.entity1, Label1) \o EvidenceOf(pair.entity2, Label2)
    IN  <<Relationship(pair.entity1.id, pair.entity2.id, "compares_with",
                       ComparisonConfidence, evidence, FALSE)>>

\* the two relationships of one conflict pair
PairRelationships(pair) ==
    LET evidence == EvidenceOf(pair.entity1, Label1) \o EvidenceOf(pair.entity2, Label2)
    IN  <<Relationship(pair.entity1.id, pair.entity2.id, "compares_with",
                       ComparisonConfidence, evidence, FALSE),
          Relationship(pair.entity2.id, pair.entity1.id, "compares_with",
                       ComparisonConfidence, evidence, FALSE)>>

RECURSIVE ExtendRelationships(_, _)
ExtendRelationships(conflict_pairs, k) ==
    IF k > Len(conflict_pairs) THEN <<>>
    ELSE PairRelationships(conflict_pairs[k])
         \o ExtendRelationships(conflict_pairs, k + 1)

\* create_comparison_relationships building its relationships without the
\* validation of Relationship(...)
CreateComparisonRelationshipsUnvalidated(conflict_pairs) ==
    [raised |-> FALSE, relationships |-> ExtendRelationships(conflict_pairs, 1)]

\* create_comparison_relationships: the returned list, or the ValueError of
\* the first Relationship(...) that is rejected, which nothing catches
CreateComparisonRelationships(conflict_pairs) ==
    IF \E k \in DOMAIN conflict_pairs :
           RelationshipRejected(conflict_pairs[k].entity1.id,
                                conflict_pairs[k].entity2.id)
    THEN [raised |-> TRUE, relationships |-> <<>>]
    ELSE [raised |-> FALSE,
          relationships |-> ExtendRelationships(conflict_pairs, 1)]

\* detect_and_create_comparisons: the relationships, or the exception of
\* create_comparison_relationships
DetectAndCreateComparisons(entities) ==
    CreateComparisonRelationships(DetectConflictsInEntities(entities))

(***************************************************************************)
(* Inputs: the entities a batch is drawn from                              *)
(***************************************************************************)
\* the longest batch handed to the services
MaxBatch == 3

TensorFlow == <<"T","e","n","s","o","r","F","l","o","w">>

Tensorflow == <<"T","e","n","s","o","r","f","l","o","w">>

MachineLearning == <<"M","a","c","h","i","n","e"," ","L","e","a","r","n","i","n","g">>

ML == <<"M","L">>

Python == <<"P","y","t","h","o","n">>

Keras == <<"K","e","r","a","s">>

Lava == <<"L","a","v","a">>

Java == <<"J","a","v","a">>

Jax == <<"J","a","x">>

Jason == <<"J","a","s","o","n">>

SummaryFramework == <<"M","L"," ","f","r","a","m","e","w","o","r","k">>

SummaryToolkit == <<"o","p","e","n"," ","t","o","o","l","k","i","t">>

PlusPlus == <<"+","+">>

MixedMl == <<"M","l">>

LowerPython == <<"p","y","t","h","o","n">>

Half == [n |-> 1, d |-> 2]

\* Example A of the specification
ExampleA1 ==
    Entity(TensorFlow, "Library", <<>>, <<>>, [n |-> 9, d |-> 10],
           <<SourceSpan("docA", 0, 10)>>, SummaryFramework)

ExampleA2 ==
    Entity(Tensorflow, "Library", <<>>, <<>>, Half,
           <<SourceSpan("docB", 0, 10)>>, SummaryToolkit)

\* Example B of the specification, the first entity seen in two documents
ExampleB1 ==
    Entity(MachineLearning, "Concept", <<ML>>, <<>>, [n |-> 9, d |-> 10],
           <<SourceSpan("docA", 0, 16), SourceSpan("docB", 5, 21)>>, <<>>)

ExampleB2 ==
    Entity(ML, "Concept", <<>>, <<>>, [n |-> 7, d |-> 10],
           <<SourceSpan("docB", 0, 2)>>, <<>>)

\* the same name and type as ExampleB2, extracted from another document
SecondML ==
    Entity(ML, "Concept", <<>>, <<>>, [n |-> 1, d |-> 5],
           <<SourceSpan("docC", 3, 5)>>, <<>>)

\* three entities with embeddings, the first two without source spans:
\* cos(Python, Keras) = 0.868, cos(Keras, Lava) = 0.965, cos(Python, Lava) = 0.707
EmbPython ==
    Entity(Python, "Library", <<>>, <<1, 0>>, [n |-> 0, d |-> 1], <<>>, <<>>)

EmbKeras ==
    Entity(Keras, "Library", <<>>, <<7, 4>>, [n |-> 0, d |-> 1], <<>>, <<>>)

EmbLava ==
    Entity(Lava, "Library", <<>>, <<1, 1>>, Half,
           <<SourceSpan("docC", 0, 4), SourceSpan("docA", 7, 11)>>,
           SummaryToolkit)

PlainJava ==
    Entity(Java, "Library", <<>>, <<>>, [n |-> 1, d |-> 1],
           <<SourceSpan("docA", 20, 24)>>, SummaryFramework)

PlainJax ==
    Entity(Jax, "Library", <<>>, <<>>, Half,
           <<SourceSpan("docB", 30, 33)>>, SummaryToolkit)

\* the name and the embedding of EmbPython under another type
ConceptPython ==
    Entity(Python, "Concept", <<>>, <<1, 0>>, Half,
           <<SourceSpan("docB", 40, 46)>>, <<>>)

\* a name made of punctuation only, which normalize() turns into ''
PunctuationOnly ==
    Entity(PlusPlus, "Library", <<>>, <<>>, [n |-> 1, d |-> 1],
           <<SourceSpan("docD", 50, 52)>>, <<>>)

\* the name of ExampleB2 in another letter case, from a third document
MixedCaseMl ==
    Entity(MixedMl, "Concept", <<>>, <<>>, [n |-> 1, d |-> 5],
           <<SourceSpan("docA", 60, 62)>>, <<>>)

\* the name of EmbPython in lower case, with an embedding orthogonal to it
EmbLowerPython ==
    Entity(LowerPython, "Library", <<>>, <<0, 1>>, Half,
           <<SourceSpan("docA", 70, 76)>>, <<>>)

\* a name whose similarity to "java" and to "python" is between 0.3 and 0.5
PlainJason ==
    Entity(Jason, "Library", <<>>, <<>>, [n |-> 1, d |-> 10],
           <<SourceSpan("docC", 80, 85)>>, SummaryToolkit)

EntityPool == {ExampleA1, ExampleA2, ExampleB1, ExampleB2, SecondML,
               EmbPython, EmbKeras, EmbLava, PlainJava, PlainJax,
               ConceptPython, PunctuationOnly, MixedCaseMl, EmbLowerPython,
               PlainJason}

Batches == UNION {[1..n -> EntityPool] : n \in 0..MaxBatch}

(***************************************************************************)
(* State: one batch and the results of the calls made on it                *)
(***************************************************************************)
VARIABLES pc, entities, merge_groups, canonical_entities,
          detect_input, conflict_pairs, relationships, comparison_raised,
          merged_entity, ingestion, entity_call, detector_call,
          ingestions, store, similarity_queries,
          analysis_input, analysis,
          active_connections, connection_metadata, message_queues, lock,
          tasks, failing_sockets

\* the state of the calls made on one batch
batch_vars == <<pc, entities, merge_groups, canonical_entities,
                detect_input, conflict_pairs, relationships, comparison_raised,
                merged_entity, ingestion, entity_call, detector_call>>

\* the state of the ingestions in progress and of the stores they write to
store_vars == <<ingestions, store>>

\* the arguments and the result of analyze_cross_document_patterns
report_vars == <<analysis_input, analysis>>

\* the fields of the ConnectionManager, the calls in progress on it and
\* the sockets whose send_text raises
ws_vars == <<active_connections, connection_metadata, message_queues, lock,
             tasks, failing_sockets>>

\* what the actions on one batch leave alone
other_vars == <<store_vars, report_vars, ws_vars>>

\* what the steps of an ingestion leave alone, the stores apart
ingest_rest == <<batch_vars, similarity_queries, report_vars, ws_vars>>

vars == <<batch_vars, store_vars, similarity_queries, report_vars, ws_vars>>

\* no call is in progress on a batch
InitBatchIdle ==
    /\ pc = "ready"
    /\ entities = <<>>
    /\ merge_groups = <<>>
    /\ canonical_entities = <<>>
    /\ detect_input = <<>>
    /\ conflict_pairs = <<>>
    /\ relationships = <<>>
    /\ comparison_raised = FALSE
    /\ merged_entity = <<>>
    /\ ingestion = <<>>
    /\ entity_call = <<>>
    /\ detector_call = <<>>

\* no ingestion is in progress and nothing is stored
InitStoreIdle ==
    /\ ingestions = <<>>
    /\ store = [entities |-> {}, relationships |-> {}]

\* no analysis was asked for
InitReportIdle ==
    /\ analysis_input = <<>>
    /\ analysis = <<>>

\* a ConnectionManager as constructed, with no call in progress
InitWsIdle ==
    /\ active_connections = {}
    /\ connection_metadata = <<>>
    /\ message_queues = <<>>
    /\ lock = 0
    /\ tasks = <<>>
    /\ failing_sockets = {}

InitOther ==
    /\ InitStoreIdle
    /\ InitReportIdle
    /\ InitWsIdle
    /\ similarity_queries = <<>>

Init ==
    /\ pc = "ready"
    /\ entities \in Batches
    /\ merge_groups = <<>>
    /\ canonical_entities = <<>>
    /\ detect_input = <<>>
    /\ conflict_pairs = <<>>
    /\ relationships = <<>>
    /\ comparison_raised = FALSE
    /\ merged_entity = <<>>
    /\ ingestion = <<>>
    /\ entity_call = <<>>
    /\ detector_call = <<>>
    /\ InitOther

\* canonicalize_entities(entities)
CanonicalizeEntities ==
    /\ pc = "ready"
    /\ pc' = "canonicalized"
    /\ merge_groups' = IF Len(entities) = 0 THEN <<>> ELSE MergeGroups(entities)
    /\ canonical_entities' =
           IF Len(entities) = 0 THEN <<>>
           ELSE CanonicalEntities(entities, merge_groups')
    /\ UNCHANGED <<entities, detect_input, conflict_pairs, relationships,
                   comparison_raised, merged_entity, ingestion, entity_call,
                   detector_call>>
    /\ UNCHANGED <<other_vars, similarity_queries>>

\* detect_conflicts_in_entities(entities), on the batch as extracted
DetectConflictsInBatch ==
    /\ pc = "ready"
    /\ pc' = "detected"
    /\ detect_input' = entities
    /\ conflict_pairs' = DetectConflictsInEntities(entities)
    /\ UNCHANGED <<entities, merge_groups, canonical_entities, relationships,
                   comparison_raised, merged_entity, ingestion, entity_call,
                   detector_call>>
    /\ UNCHANGED <<other_vars, similarity_queries>>

\* detect_conflicts_in_entities(canonical_entities), as ingest_text calls it
DetectConflictsInCanonical ==
    /\ pc = "canonicalized"
    /\ pc' = "detected"
    /\ detect_input' = canonical_entities
    /\ conflict_pairs' = DetectConflictsInEntities(canonical_entities)
    /\ UNCHANGED <<entities, merge_groups, canonical_entities, relationships,
                   comparison_raised, merged_entity, ingestion, entity_call,
                   detector_call>>
    /\ UNCHANGED <<other_vars, similarity_queries>>

\* create_comparison_relationships(conflict_pairs)
CreateRelationships ==
    /\ pc = "detected"
    /\ pc' = "compared"
    /\ LET Returned(result) ==
               /\ relationships' = result.relationships
               /\ comparison_raised' = result.raised
       IN  Returned(CreateComparisonRelationships(conflict_pairs))
    /\ UNCHANGED <<entities, merge_groups, canonical_entities, detect_input,
                   conflict_pairs, merged_entity, ingestion, entity_call,
                   detector_call>>
    /\ UNCHANGED <<other_vars, similarity_queries>>

\* _merge_entities(entities): the batch handed over as one group
MergeGroup ==
    /\ pc = "ready"
    /\ pc' = "merged"
    /\ merged_entity' = MergeEntities(entities)
    /\ UNCHANGED <<entities, merge_groups, canonical_entities, detect_input,
                   conflict_pairs, relationships, comparison_raised, ingestion, entity_call,
                   detector_call>>
    /\ UNCHANGED <<other_vars, similarity_queries>>

\* ingest_text from the extracted entities on: canonicalization, conflict
\* detection, storage, broadcast and the response. internal_error says
\* whether an exception is raised inside canonicalize_entities.
IngestText ==
    /\ pc = "ready"
    /\ pc' = "ingested"
    /\ \E internal_error \in BOOLEAN :
          LET Respond(returned, compared) ==
                  ingestion' =
                      [canonicalization_failed |->
                           internal_error /\ Len(entities) > 0,
                       canonical_entities |-> returned,
                       conflict_detection_failed |-> compared.raised,
                       comparison_relationships |-> compared.relationships,
                       stored_entities |-> returned,
                       stored_relationships |-> compared.relationships,
                       broadcast_nodes |-> returned,
                       broadcast_edges |-> compared.relationships,
                       success |-> TRUE]
              Compare(returned) ==
                  Respond(returned,
                          IF Len(returned) > 1
                          THEN DetectAndCreateComparisons(returned)
                          ELSE [raised |-> FALSE, relationships |-> <<>>])
          IN  Compare(CanonicalizeEntitiesOrOriginal(entities, internal_error))
    /\ UNCHANGED <<entities, merge_groups, canonical_entities, detect_input,
                   conflict_pairs, relationships, comparison_raised,
                   merged_entity, entity_call,
                   detector_call>>
    /\ UNCHANGED <<other_vars, similarity_queries>>

\* canonicalize_entity(entity) for the first entity of the batch, the rest
\* of the batch being what the similarity search has stored and returns
CanonicalizeOneEntity ==
    /\ pc = "ready"
    /\ Len(entities) >= 1
    /\ pc' = "entity_canonicalized"
    /\ \E failure_at \in 0..Len(entities) :
          LET Return(entity, vector_results, similar_entities) ==
                  entity_call' =
                      [entity |-> entity,
                       vector_results |-> vector_results,
                       failure_at |-> failure_at,
                       similar_entities |-> similar_entities,
                       returned |-> CanonicalizeEntity(entity, similar_entities)]
          IN  Return(entities[1], Tail(entities),
                     FindSimilarEntities(entities[1], Tail(entities), failure_at))
    /\ UNCHANGED <<entities, merge_groups, canonical_entities, detect_input,
                   conflict_pairs, relationships, comparison_raised,
                   merged_entity, ingestion, detector_call>>
    /\ similarity_queries' =
           IF Len(entities[1].embedding) > 0 THEN <<entities[1]>> ELSE <<>>
    /\ UNCHANGED other_vars

\* _extract_conflicting_attributes(entity1, entity2) on the first two
\* entities of the batch
ExtractConflicts ==
    /\ pc = "ready"
    /\ Len(entities) >= 2
    /\ pc' = "extracted"
    /\ detector_call' =
           [entity1 |-> entities[1], entity2 |-> entities[2],
            conflicts |-> ExtractConflictingAttributes(entities[1], entities[2])]
    /\ UNCHANGED <<entities, merge_groups, canonical_entities, detect_input,
                   conflict_pairs, relationships, comparison_raised,
                   merged_entity, ingestion, entity_call>>
    /\ UNCHANGED <<other_vars, similarity_queries>>

\* _should_create_comparison_relationship(entity1, entity2) on the first two
\* entities of the batch
ShouldCompare ==
    /\ pc = "ready"
    /\ Len(entities) >= 2
    /\ pc' = "decided"
    /\ detector_call' =
           [entity1 |-> entities[1], entity2 |-> entities[2],
            result |-> ShouldCreateComparisonRelationship(entities[1],
                                                          entities[2])]
    /\ UNCHANGED <<entities, merge_groups, canonical_entities, detect_input,
                   conflict_pairs, relationships, comparison_raised,
                   merged_entity, ingestion, entity_call>>
    /\ UNCHANGED <<other_vars, similarity_queries>>

(***************************************************************************)
(* Conflict detection on entities with long summaries                      *)
(***************************************************************************)
\* a summary of n characters
SummaryOfLength(n) == [k \in 1..n |-> "x"]

\* the summary lengths tried, around the 100 characters that are quoted
SummaryLengths == {0, 50, 85, 86, 100, 101, 120}

\* entities "ML" of document A with summaries of these lengths, and
\* entities "ML" and "Ml" of document B with a short summary or none
EvidencePool ==
    {Entity(ML, "Concept", <<>>, <<>>, salience,
            <<SourceSpan("docA", 4, 6), SourceSpan("docA", 30, 32)>>,
            SummaryOfLength(n)) :
         salience \in {[n |-> 9, d |-> 10], [n |-> 1, d |-> 5]},
         n \in SummaryLengths}
    \cup {Entity(name, "Concept", <<>>, <<>>, salience,
                 <<SourceSpan("docB", 8, 10)>>, summary) :
              name \in {ML, MixedMl},
              salience \in {[n |-> 9, d |-> 10], [n |-> 1, d |-> 5]},
              summary \in {<<>>, SummaryToolkit}}

InitEvidence ==
    /\ pc = "ready"
    /\ entities \in [1..2 -> EvidencePool]
    /\ merge_groups = <<>>
    /\ canonical_entities = <<>>
    /\ detect_input = <<>>
    /\ conflict_pairs = <<>>
    /\ relationships = <<>>
    /\ comparison_raised = FALSE
    /\ merged_entity = <<>>
    /\ ingestion = <<>>
    /\ entity_call = <<>>
    /\ detector_call = <<>>
    /\ InitOther

NextEvidence ==
    \/ DetectConflictsInBatch
    \/ CreateRelationships

EvidenceSpec == InitEvidence /\ [][NextEvidence]_vars

(***************************************************************************)
(* Two ingest_text requests in progress at once, writing to the same       *)
(* stores. The steps of a request are the parts of the handler between     *)
(* awaits; canonicalize_entities itself awaits nothing.                    *)
(***************************************************************************)
MaxRequest == 2

IngestPool == {ExampleB2, SecondML, MixedCaseMl, EmbPython, EmbKeras}

Requests == UNION {[1..n -> IngestPool] : n \in 1..MaxRequest}

\* store_entity / store_entities: an upsert under the id of the entity
Upsert(stored, entity) == {e \in stored : e.id # entity.id} \cup {entity}

RECURSIVE StoreEntities(_, _, _)
StoreEntities(stored, canonical, k) ==
    IF k > Len(canonical) THEN stored
    ELSE StoreEntities(Upsert(stored, canonical[k]), canonical, k + 1)

\* canonical_entities of ingest_text as if the entities already stored were
\* clustered together with the batch
CanonicalizedWithStored(all_entities, stored) ==
    LET RECURSIVE AsList(_)
        AsList(S) == IF S = {} THEN <<>>
                     ELSE LET e == CHOOSE x \in S : TRUE
                          IN  <<e>> \o AsList(S \ {e})
    IN  CanonicalizeEntitiesOrOriginal(AsList(stored) \o all_entities, FALSE)

\* canonical_entities of ingest_text: canonicalize_entities(all_entities),
\* which is given the batch and nothing of what is stored
CanonicalizedForIngest(all_entities, stored) ==
    CanonicalizeEntitiesOrOriginal(all_entities, FALSE)

InitIngest ==
    /\ InitBatchIdle
    /\ InitReportIdle
    /\ InitWsIdle
    /\ \E first, second \in Requests :
          ingestions =
              [i \in 1..2 |->
                  [all_entities |-> IF i = 1 THEN first ELSE second,
                   stage |-> "extracted",
                   canonical_entities |-> <<>>,
                   comparison_relationships |-> <<>>]]
    /\ store = [entities |-> {}, relationships |-> {}]
    /\ similarity_queries = <<>>

\* Step 3 of ingest_text
CanonicalizeStep(i) ==
    /\ ingestions[i].stage = "extracted"
    /\ ingestions' =
           [ingestions EXCEPT
               ![i].stage = "canonicalized",
               ![i].canonical_entities =
                   CanonicalizedForIngest(ingestions[i].all_entities,
                                          store.entities)]
    /\ UNCHANGED <<ingest_rest, store>>

\* Step 4 of ingest_text
DetectStep(i) ==
    /\ ingestions[i].stage = "canonicalized"
    /\ LET Extend(compared) ==
               ingestions' =
                   [ingestions EXCEPT
                       ![i].stage = "compared",
                       ![i].comparison_relationships = compared.relationships]
       IN  Extend(IF Len(ingestions[i].canonical_entities) > 1
                  THEN DetectAndCreateComparisons(
                           ingestions[i].canonical_entities)
                  ELSE [raised |-> FALSE, relationships |-> <<>>])
    /\ UNCHANGED <<ingest_rest, store>>

\* Step 5 of ingest_text: the entities and the relationships are stored
StoreStep(i) ==
    /\ ingestions[i].stage = "compared"
    /\ ingestions' = [ingestions EXCEPT ![i].stage = "stored"]
    /\ store' =
           [entities |-> StoreEntities(store.entities,
                                       ingestions[i].canonical_entities, 1),
            relationships |->
                store.relationships
                \cup Range(ingestions[i].comparison_relationships)]
    /\ UNCHANGED ingest_rest

\* the broadcasts and return IngestResponse(success=True, ...)
RespondStep(i) ==
    /\ ingestions[i].stage = "stored"
    /\ ingestions' = [ingestions EXCEPT ![i].stage = "done"]
    /\ UNCHANGED <<ingest_rest, store>>

NextIngest ==
    \/ \E i \in 1..2 : CanonicalizeStep(i)
    \/ \E i \in 1..2 : DetectStep(i)
    \/ \E i \in 1..2 : StoreStep(i)
    \/ \E i \in 1..2 : RespondStep(i)

IngestSpec == InitIngest /\ [][NextIngest]_vars

(***************************************************************************)
(* ConflictDetector.analyze_cross_document_patterns                        *)
(***************************************************************************)
\* sorted_conflicts[:5]
MostConflictedLimit == 5

\* comparison_rels
ComparisonRels(rels) ==
    SelectSeq(rels, LAMBDA rel : rel.predicate = "compares_with")

\* entity_conflict_counts[id] = entity_conflict_counts.get(id, 0) + 1, the
\* dict being kept as the list of its items in insertion order
IncrementCount(counts, id) ==
    IF \E k \in DOMAIN counts : counts[k].entity_id = id
    THEN [k \in DOMAIN counts |->
             IF counts[k].entity_id = id
             THEN [counts[k] EXCEPT !.conflict_count = @ + 1]
             ELSE counts[k]]
    ELSE Append(counts, [entity_id |-> id, conflict_count |-> 1])

\* entity_conflict_counts after the first k comparison relationships
RECURSIVE EntityConflictCounts(_, _)
EntityConflictCounts(comparison_rels, k) ==
    IF k = 0 THEN <<>>
    ELSE IncrementCount(
             IncrementCount(EntityConflictCounts(comparison_rels, k - 1),
                            comparison_rels[k].from_entity),
             comparison_rels[k].to_entity)

\* the items sorted by count with the lowest count first
RECURSIVE SortedConflictsAscending(_)
SortedConflictsAscending(counts) ==
    IF Len(counts) = 0 THEN <<>>
    ELSE LET top == CHOOSE k \in DOMAIN counts :
                        /\ \A m \in DOMAIN counts :
                               counts[m].conflict_count >= counts[k].conflict_count
                        /\ \A m \in 1..(k - 1) :
                               counts[m].conflict_count > counts[k].conflict_count
             rest == [m \in 1..(Len(counts) - 1) |->
                         IF m < top THEN counts[m] ELSE counts[m + 1]]
         IN  <<counts[top]>> \o SortedConflictsAscending(rest)

\* sorted(entity_conflict_counts.items(), key=lambda x: x[1], reverse=True):
\* stable, so of items with equal counts the one inserted first comes first
RECURSIVE SortedConflicts(_)
SortedConflicts(counts) ==
    IF Len(counts) = 0 THEN <<>>
    ELSE LET top == CHOOSE k \in DOMAIN counts :
                        /\ \A m \in DOMAIN counts :
                               counts[m].conflict_count <= counts[k].conflict_count
                        /\ \A m \in 1..(k - 1) :
                               counts[m].conflict_count < counts[k].conflict_count
             rest == [m \in 1..(Len(counts) - 1) |->
                         IF m < top THEN counts[m] ELSE counts[m + 1]]
         IN  <<counts[top]>> \o SortedConflicts(rest)

\* next((e for e in entities if e.id == entity_id), None): the position of
\* the first such entity, 0 for None
FirstWithId(list, entity_id) ==
    IF \E k \in DOMAIN list : list[k].id = entity_id
    THEN CHOOSE k \in DOMAIN list :
             /\ list[k].id = entity_id
             /\ \A m \in 1..(k - 1) : list[m].id # entity_id
    ELSE 0

\* analysis["most_conflicted_entities"], from item k of the top items on
RECURSIVE MostConflictedEntities(_, _, _)
MostConflictedEntities(list, top, k) ==
    IF k > Len(top) THEN <<>>
    ELSE LET Entry(pos) ==
                 IF pos # 0
                 THEN <<[entity_id |-> top[k].entity_id,
                         entity_name |-> list[pos].name,
                         entity_type |-> list[pos].type,
                         conflict_count |-> top[k].conflict_count]>>
                 ELSE <<>>
         IN  Entry(FirstWithId(list, top[k].entity_id))
             \o MostConflictedEntities(list, top, k + 1)

\* the comparison relationships both ends of which are in the entity list
KnownComparisons(list, comparison_rels) ==
    SelectSeq(comparison_rels,
              LAMBDA rel : /\ FirstWithId(list, rel.from_entity) # 0
                           /\ FirstWithId(list, rel.to_entity) # 0)

\* analysis["document_pairs"]: the pairs of different documents of the two
\* ends of a comparison, each pair sorted
DocumentPairs(list, comparison_rels) ==
    UNION {{ {from_doc, to_doc} :
               from_doc \in GetDocumentSources(
                                list[FirstWithId(list, rel.from_entity)]),
               to_doc \in GetDocumentSources(
                              list[FirstWithId(list, rel.to_entity)]) }
           \ { {doc} : doc \in GetDocumentSources(
                                   list[FirstWithId(list, rel.from_entity)]) } :
           rel \in Range(KnownComparisons(list, comparison_rels))}

\* analysis["entity_conflicts_by_type"]
EntityConflictsByType(list, comparison_rels) ==
    LET known == KnownComparisons(list, comparison_rels)
        TypeOf(rel) == list[FirstWithId(list, rel.from_entity)].type
    IN  [type \in {TypeOf(rel) : rel \in Range(known)} |->
            Cardinality({k \in DOMAIN known : TypeOf(known[k]) = type})]

\* analyze_cross_document_patterns(entities, relationships)
AnalyzeCrossDocumentPatterns(list, rels) ==
    LET Report(comparison_rels) ==
            [total_entities |-> Len(list),
             cross_document_entities |->
                 Cardinality({k \in DOMAIN list :
                                 Cardinality(GetDocumentSources(list[k])) > 1}),
             comparison_relationships |-> Len(comparison_rels),
             document_pairs |-> DocumentPairs(list, comparison_rels),
             entity_conflicts_by_type |->
                 EntityConflictsByType(list, comparison_rels),
             most_conflicted_entities |->
                 MostConflictedEntities(
                     list,
                     SubSeq(SortedConflicts(
                                EntityConflictCounts(comparison_rels,
                                                     Len(comparison_rels))),
                            1,
                            IF Len(EntityConflictCounts(comparison_rels,
                                                        Len(comparison_rels)))
                                   < MostConflictedLimit
                            THEN Len(EntityConflictCounts(comparison_rels,
                                                          Len(comparison_rels)))
                            ELSE MostConflictedLimit),
                     1)]
    IN  Report(ComparisonRels(rels))

MaxRelationships == 5

\* seven entities with different ids
AnalysisEntities ==
    <<ExampleA1, ExampleA2, ExampleB1, ExampleB2, EmbLava, PlainJava, PlainJax>>

\* the entity list whole, without its first entity, and with a second
\* entity under the id of ExampleB2
EntityLists ==
    {AnalysisEntities, Tail(AnalysisEntities), AnalysisEntities \o <<SecondML>>}

RelationshipPool ==
    {Relationship(pair[1].id, pair[2].id, "compares_with",
                  ComparisonConfidence, <<>>, FALSE) :
         pair \in {<<ExampleA1, ExampleA2>>, <<ExampleA2, ExampleA1>>,
                    <<ExampleA1, ExampleB1>>, <<ExampleB2, EmbLava>>,
                    <<PlainJava, PlainJax>>, <<PlainJax, EmbLava>>}}
    \cup {Relationship(ExampleB1.id, PlainJava.id, "related_to",
                       ComparisonConfidence, <<>>, TRUE)}

InitAnalysis ==
    /\ InitBatchIdle
    /\ InitStoreIdle
    /\ InitWsIdle
    /\ similarity_queries = <<>>
    /\ \E list \in EntityLists :
          \E rels \in UNION {[1..n -> RelationshipPool] :
                                n \in 0..MaxRelationships} :
              analysis_input = [entities |-> list, relationships |-> rels]
    /\ analysis = <<>>

\* analyze_cross_document_patterns(entities, relationships)
Analyze ==
    /\ pc = "ready"
    /\ analysis_input # <<>>
    /\ pc' = "analysed"
    /\ analysis' = AnalyzeCrossDocumentPatterns(analysis_input.entities,
                                                analysis_input.relationships)
    /\ UNCHANGED <<entities, merge_groups, canonical_entities, detect_input,
                   conflict_pairs, relationships, comparison_raised,
                   merged_entity, ingestion, entity_call, detector_call,
                   store_vars, similarity_queries, analysis_input, ws_vars>>

AnalysisSpec == InitAnalysis /\ [][Analyze]_vars

(***************************************************************************)
(* ConnectionManager: coroutines on one event loop, sharing self._lock     *)
(***************************************************************************)
Clients == {"c1", "c2"}

Tasks == {1, 2}

MaxCalls == 2

\* max_queue_size
MaxQueueSize == 100

NoClient == "none"

\* a coroutine that is in no call of the manager
IdleTask(calls) ==
    [op |-> "none", client |-> NoClient, pc |-> "idle", targets |-> <<>>,
     calls |-> calls]

\* a call made by task t returns
Returned(t) == [tasks EXCEPT ![t] = IdleTask(tasks[t].calls + 1)]

\* del d[client_id], if the key is there
Without(d, client_id) == [k \in (DOMAIN d) \ {client_id} |-> d[k]]

\* d[client_id] = value
With(d, client_id, value) ==
    [k \in (DOMAIN d) \cup {client_id} |->
        IF k = client_id THEN value ELSE d[k]]

\* connection_metadata[client_id]["messages_sent"] += n
Sent(metadata, client_id, n) ==
    [metadata EXCEPT ![client_id].messages_sent = @ + n]

\* the queue after message_queues[client_id].append(message_wrapper) and
\* the cut to the last max_queue_size messages
Queued(queues, client_id, message) ==
    LET Cut(queue) ==
            IF Len(queue) > MaxQueueSize
            THEN SubSeq(queue, Len(queue) - MaxQueueSize + 1, Len(queue))
            ELSE queue
    IN  With(queues, client_id,
             Cut(Append(IF client_id \in DOMAIN queues
                        THEN queues[client_id] ELSE <<>>,
                        message)))

ws_rest == <<batch_vars, store_vars, similarity_queries, report_vars>>

InitWebSocket ==
    /\ InitBatchIdle
    /\ InitStoreIdle
    /\ InitReportIdle
    /\ similarity_queries = <<>>
    /\ active_connections = {}
    /\ connection_metadata = <<>>
    /\ message_queues = <<>>
    /\ lock = 0
    /\ tasks = [t \in Tasks |-> IdleTask(0)]
    /\ failing_sockets = {}

\* the socket of a client starts to raise on send_text
BreakSocket(client_id) ==
    /\ client_id \in active_connections
    /\ client_id \notin failing_sockets
    /\ failing_sockets' = failing_sockets \cup {client_id}
    /\ UNCHANGED <<active_connections, connection_metadata, message_queues,
                   lock, tasks, ws_rest>>

\* connect(websocket, client_id) up to websocket.accept(), with a new socket
StartConnect(t, client_id) ==
    /\ tasks[t].pc = "idle"
    /\ tasks[t].calls < MaxCalls
    /\ tasks' = [tasks EXCEPT ![t].op = "connect", ![t].client = client_id,
                              ![t].pc = "register"]
    /\ failing_sockets' = failing_sockets \ {client_id}
    /\ UNCHANGED <<active_connections, connection_metadata, message_queues,
                   lock, ws_rest>>

\* connect: the block under the lock, which stores the connection and sends
\* and clears the queue of the client; what is left of connect is its call
\* of send_personal_message
ConnectRegister(t) ==
    /\ tasks[t].pc = "register"
    /\ lock = 0
    /\ active_connections' = active_connections \cup {tasks[t].client}
    /\ connection_metadata' =
          With(connection_metadata, tasks[t].client,
               [messages_sent |->
                    IF /\ tasks[t].client \in DOMAIN message_queues
                       /\ tasks[t].client \notin failing_sockets
                    THEN Len(message_queues[tasks[t].client])
                    ELSE 0,
                messages_received |-> 0])
    /\ message_queues' = Without(message_queues, tasks[t].client)
    /\ tasks' = [tasks EXCEPT ![t].pc = "send_lock"]
    /\ UNCHANGED <<lock, failing_sockets, ws_rest>>

\* a call of send_personal_message(message, client_id) begins
StartSend(t, client_id) ==
    /\ tasks[t].pc = "idle"
    /\ tasks[t].calls < MaxCalls
    /\ tasks' = [tasks EXCEPT ![t].op = "send_personal_message",
                              ![t].client = client_id,
                              ![t].pc = "send_lock"]
    /\ UNCHANGED <<active_connections, connection_metadata, message_queues,
                   lock, failing_sockets, ws_rest>>

\* send_personal_message: async with self._lock, then either the message
\* is queued and the lock released, or the task goes on to send_text with
\* the lock held
SendLocked(t) ==
    /\ tasks[t].pc = "send_lock"
    /\ lock = 0
    /\ IF tasks[t].client \in active_connections
       THEN /\ lock' = t
            /\ tasks' = [tasks EXCEPT ![t].pc = "send_text"]
            /\ UNCHANGED message_queues
       ELSE /\ message_queues' =
                  Queued(message_queues, tasks[t].client, tasks[t].op)
            /\ tasks' = Returned(t)
            /\ UNCHANGED lock
    /\ UNCHANGED <<active_connections, connection_metadata, failing_sockets,
                   ws_rest>>

\* send_personal_message: await websocket.send_text(...) under the lock;
\* when it raises the handler awaits self.disconnect(client_id), the lock
\* still held
SendText(t) ==
    /\ tasks[t].pc = "send_text"
    /\ IF tasks[t].client \notin failing_sockets
       THEN /\ connection_metadata' =
                  Sent(connection_metadata, tasks[t].client, 1)
            /\ lock' = 0
            /\ tasks' = Returned(t)
       ELSE /\ tasks' = [tasks EXCEPT ![t].pc = "disconnect"]
            /\ UNCHANGED <<connection_metadata, lock>>
    /\ UNCHANGED <<active_connections, message_queues, failing_sockets,
                   ws_rest>>

\* a call of disconnect(client_id) begins
StartDisconnect(t, client_id) ==
    /\ tasks[t].pc = "idle"
    /\ tasks[t].calls < MaxCalls
    /\ tasks' = [tasks EXCEPT ![t].op = "disconnect",
                              ![t].client = client_id,
                              ![t].pc = "disconnect"]
    /\ UNCHANGED <<active_connections, connection_metadata, message_queues,
                   lock, failing_sockets, ws_rest>>

\* the client that task t is waiting to disconnect: the one of its call,
\* or one of the clients of its broadcast whose send failed
Disconnecting(t) ==
    IF tasks[t].pc = "disconnect" THEN {tasks[t].client}
    ELSE {c \in DOMAIN tasks[t].targets : tasks[t].targets[c] = "disconnect"}

\* disconnect(client_id): async with self._lock, the two deletions, and
\* the return to the caller; the lock that the caller holds, if it holds
\* one, is released at the end of its own async with block
Disconnect(t, client_id) ==
    /\ client_id \in Disconnecting(t)
    /\ lock = 0
    /\ active_connections' = active_connections \ {client_id}
    /\ connection_metadata' = Without(connection_metadata, client_id)
    /\ tasks' = IF tasks[t].pc = "disconnect"
                THEN Returned(t)
                ELSE [tasks EXCEPT ![t].targets[client_id] = "done"]
    /\ UNCHANGED <<message_queues, lock, failing_sockets, ws_rest>>

\* a call of broadcast(message, exclude_client) begins
StartBroadcast(t, exclude_client) ==
    /\ tasks[t].pc = "idle"
    /\ tasks[t].calls < MaxCalls
    /\ tasks' = [tasks EXCEPT ![t].op = "broadcast",
                              ![t].client = exclude_client,
                              ![t].pc = "targets"]
    /\ UNCHANGED <<active_connections, connection_metadata, message_queues,
                   lock, failing_sockets, ws_rest>>

\* broadcast: target_clients is read under the lock and the lock released;
\* with no target the call returns, otherwise one _send_to_client per
\* target is gathered
BroadcastTargets(t) ==
    /\ tasks[t].pc = "targets"
    /\ lock = 0
    /\ tasks' = IF active_connections \ {tasks[t].client} = {}
                THEN Returned(t)
                ELSE [tasks EXCEPT
                         ![t].pc = "gather",
                         ![t].targets =
                             [c \in active_connections \ {tasks[t].client}
                                 |-> "check"]]
    /\ UNCHANGED <<active_connections, connection_metadata, message_queues,
                   lock, failing_sockets, ws_rest>>

\* _send_to_client: the look-up of the socket under the lock
ClientCheck(t, client_id) ==
    /\ tasks[t].pc = "gather"
    /\ client_id \in DOMAIN tasks[t].targets
    /\ tasks[t].targets[client_id] = "check"
    /\ lock = 0
    /\ tasks' = [tasks EXCEPT ![t].targets[client_id] =
                     IF client_id \in active_connections
                     THEN "send" ELSE "done"]
    /\ UNCHANGED <<active_connections, connection_metadata, message_queues,
                   lock, failing_sockets, ws_rest>>

\* _send_to_client: wait_for(websocket.send_text(...)), the lock not held
ClientSend(t, client_id) ==
    /\ tasks[t].pc = "gather"
    /\ client_id \in DOMAIN tasks[t].targets
    /\ tasks[t].targets[client_id] = "send"
    /\ tasks' = [tasks EXCEPT ![t].targets[client_id] =
                     IF client_id \in failing_sockets
                     THEN "disconnect" ELSE "count"]
    /\ UNCHANGED <<active_connections, connection_metadata, message_queues,
                   lock, failing_sockets, ws_rest>>

\* _send_to_client: messages_sent is counted under the lock
ClientCount(t, client_id) ==
    /\ tasks[t].pc = "gather"
    /\ client_id \in DOMAIN tasks[t].targets
    /\ tasks[t].targets[client_id] = "count"
    /\ lock = 0
    /\ connection_metadata' =
          IF client_id \in DOMAIN connection_metadata
          THEN Sent(connection_metadata, client_id, 1)
          ELSE connection_metadata
    /\ tasks' = [tasks EXCEPT ![t].targets[client_id] = "done"]
    /\ UNCHANGED <<active_connections, message_queues, lock, failing_sockets,
                   ws_rest>>

\* broadcast: asyncio.gather has all its results
GatherDone(t) ==
    /\ tasks[t].pc = "gather"
    /\ \A c \in DOMAIN tasks[t].targets : tasks[t].targets[c] = "done"
    /\ tasks' = Returned(t)
    /\ UNCHANGED <<active_connections, connection_metadata, message_queues,
                   lock, failing_sockets, ws_rest>>

\* the steps of the calls in progress, which the event loop runs
TaskStep(t) ==
    \/ ConnectRegister(t)
    \/ SendLocked(t)
    \/ SendText(t)
    \/ BroadcastTargets(t)
    \/ GatherDone(t)
    \/ \E client_id \in Clients :
          \/ Disconnect(t, client_id)
          \/ ClientCheck(t, client_id)
          \/ ClientSend(t, client_id)
          \/ ClientCount(t, client_id)

\* the calls made of the manager, and the sockets that break
TaskCall(t) ==
    \E client_id \in Clients :
        \/ StartConnect(t, client_id)
        \/ StartSend(t, client_id)
        \/ StartDisconnect(t, client_id)
        \/ StartBroadcast(t, client_id)
        \/ StartBroadcast(t, NoClient)

NextWebSocket ==
    \/ \E t \in Tasks : TaskStep(t)
    \/ \E t \in Tasks : TaskCall(t)
    \/ \E client_id \in Clients : BreakSocket(client_id)

\* the event loop runs every coroutine that can go on
WebSocketSpec ==
    /\ InitWebSocket
    /\ [][NextWebSocket]_vars
    /\ \A t \in Tasks : WF_vars(TaskStep(t))

Next ==
    \/ IngestText
    \/ CanonicalizeOneEntity
    \/ CanonicalizeEntities
    \/ DetectConflictsInBatch
    \/ DetectConflictsInCanonical
    \/ CreateRelationships
    \/ MergeGroup
    \/ ExtractConflicts
    \/ ShouldCompare

Spec == Init /\ [][Next]_vars

(***************************************************************************)
(* Properties of canonicalize_entities                                     *)
(***************************************************************************)
RECURSIVE SumExcess(_)
SumExcess(groups) ==
    IF Len(groups) = 0 THEN 0
    ELSE (IF Len(groups[1]) > 1 THEN Len(groups[1]) - 1 ELSE 0)
         + SumExcess(Tail(groups))

\* the groups, of those formed, that hold input position i
GroupsOf(i) == {g \in DOMAIN merge_groups : i \in Range(merge_groups[g])}

\* C1: after canonicalize_entities the number of returned entities is
\* len(original) minus the sum of (groupSize - 1) over the merge groups of
\* size > 1, also for a batch that holds several entities with the same id.
MergeCountInvariant ==
    pc = "canonicalized" =>
        Len(canonical_entities) = Len(entities) - SumExcess(merge_groups)

\* C2: canonicalize_entities loses no entity: every input entity is in
\* exactly one merge group, and the returned entity of that group carries
\* every source span of the input entity.
NoEntityLost ==
    pc = "canonicalized" =>
        \A i \in DOMAIN entities :
            /\ Cardinality(GroupsOf(i)) = 1
            /\ \A g \in GroupsOf(i) :
                   Range(entities[i].source_spans)
                       \subseteq Range(canonical_entities[g].source_spans)

NoMergeablePair(list) ==
    \A i, j \in DOMAIN list :
        i # j => ~ShouldMergeEntities(list[i], list[j])

\* C3: when no two entities of the input satisfy shouldMerge,
\* canonicalize_entities returns the input entities unchanged and in input
\* order, also when entities of different types are interleaved.
IdempotenceInInputOrder ==
    (pc = "canonicalized" /\ NoMergeablePair(entities)) =>
        canonical_entities = entities

\* the ids in processed_ids when the seed of group g looks at position j:
\* the members of the groups formed before, the seed, and the members the
\* open group took before j
ProcessedBefore(g, j) ==
    {entities[m].id : m \in UNION {Range(merge_groups[h]) : h \in 1..(g - 1)}}
    \cup {entities[m].id : m \in {x \in Range(merge_groups[g]) : x < j}}

\* C4: clustering is seed-only. In a type bucket, walked in input order, an
\* entity after the seed whose id is not yet in processed_ids joins the open
\* group iff shouldMerge(seed, entity) holds, whatever it has in common with
\* the members already taken; the chain Python ~ Keras ~ Lava, Python not ~
\* Lava, in this order gives the groups {Python, Keras} and {Lava}.
SeedOnlyClustering ==
    pc = "canonicalized" =>
        /\ \A g \in DOMAIN merge_groups :
              LET seed == merge_groups[g][1]
              IN  \A j \in DOMAIN entities :
                      (j > seed /\ entities[j].type = entities[seed].type) =>
                          (j \in Range(merge_groups[g])
                              <=> /\ entities[j].id \notin ProcessedBefore(g, j)
                                  /\ ShouldMergeEntities(entities[seed],
                                                         entities[j]))
        /\ entities = <<EmbPython, EmbKeras, EmbLava>> =>
              merge_groups = <<(<<1, 2>>), (<<3>>)>>

\* the chain A ~ B, B ~ C, not A ~ C was clustered: B joined A, C stayed out
SeedOnlyClusteringWitness ==
    /\ pc = "canonicalized"
    /\ Len(entities) = 3
    /\ ShouldMergeEntities(entities[1], entities[2])
    /\ ShouldMergeEntities(entities[2], entities[3])
    /\ ~ShouldMergeEntities(entities[1], entities[3])
    /\ merge_groups = <<(<<1, 2>>), (<<3>>)>>

\* C5: canonicalization never merges across types: entities of different
\* types never satisfy shouldMerge, all members of a merge group have one
\* type, and the returned entity of a group has the type of every member.
NoCrossTypeMerge ==
    /\ \A i, j \in DOMAIN entities :
          entities[i].type # entities[j].type =>
              ~ShouldMergeEntities(entities[i], entities[j])
    /\ pc = "canonicalized" =>
          \A g \in DOMAIN merge_groups :
              \A m \in Range(merge_groups[g]) :
                  /\ entities[m].type = entities[merge_groups[g][1]].type
                  /\ canonical_entities[g].type = entities[m].type

\* a batch of two types was canonicalized and a group of two or more formed,
\* next to an entity of the other type with the same name as a member
NoCrossTypeMergeWitness ==
    /\ pc = "canonicalized"
    /\ \E g \in DOMAIN merge_groups :
          /\ Len(merge_groups[g]) >= 2
          /\ \E i \in DOMAIN entities, m \in Range(merge_groups[g]) :
                /\ entities[i].type # entities[m].type
                /\ entities[i].name = entities[m].name

(***************************************************************************)
(* Properties of _merge_entities                                           *)
(***************************************************************************)
UnitInterval(x) == RatLeq([n |-> 0, d |-> 1], x) /\ RatLeq(x, [n |-> 1, d |-> 1])

\* C6: for every non-empty group whose members all have salience in [0,1],
\* with any number of source spans per member, zero included, the salience of
\* the entity returned by _merge_entities is in [0,1].
MergedSalienceInUnitInterval ==
    (/\ pc = "merged"
     /\ Len(entities) >= 1
     /\ \A k \in DOMAIN entities : UnitInterval(entities[k].salience)) =>
        UnitInterval(merged_entity.salience)

\* the position in the group of the member _merge_entities makes the
\* primary: the first of those with the highest salience
PrimaryPosition ==
    CHOOSE k \in DOMAIN entities :
        /\ \A m \in DOMAIN entities :
               RatLeq(entities[m].salience, entities[k].salience)
        /\ \A m \in 1..(k - 1) :
               RatLess(entities[m].salience, entities[k].salience)

ConflictSymmetry ==
    pc = "compared" =>
        /\ ~comparison_raised
        /\ Len(relationships) = 2 * Len(conflict_pairs)
        /\ \A k \in DOMAIN conflict_pairs :
              /\ relationships[2 * k - 1].from_entity = conflict_pairs[k].entity1.id
              /\ relationships[2 * k - 1].to_entity = conflict_pairs[k].entity2.id
              /\ relationships[2 * k].from_entity = conflict_pairs[k].entity2.id
              /\ relationships[2 * k].to_entity = conflict_pairs[k].entity1.id
        /\ \A r \in DOMAIN relationships :
              /\ relationships[r].predicate = "compares_with"
              /\ relationships[r].confidence = ComparisonConfidence
              /\ relationships[r].directional = FALSE
              /\ \E q \in DOMAIN relationships :
                    /\ relationships[q].from_entity = relationships[r].to_entity
                    /\ relationships[q].to_entity = relationships[r].from_entity
                    /\ relationships[q].confidence = relationships[r].confidence

\* C9: every pair accepted by detect_conflicts_in_entities consists of two
\* entities of one type whose sets of document ids are both non-empty and
\* disjoint, and shouldCompare is false whenever the types differ, one of the
\* entities has no source spans, or the two share a document.
AcceptedPairsDisjoint ==
    /\ \A k \in DOMAIN conflict_pairs :
          LET docs1 == GetDocumentSources(conflict_pairs[k].entity1)
              docs2 == GetDocumentSources(conflict_pairs[k].entity2)
          IN  /\ conflict_pairs[k].entity1.type = conflict_pairs[k].entity2.type
              /\ docs1 # {}
              /\ docs2 # {}
              /\ docs1 \cap docs2 = {}
    /\ \A i, j \in DOMAIN detect_input :
          (\/ detect_input[i].type # detect_input[j].type
           \/ Len(detect_input[i].source_spans) = 0
           \/ Len(detect_input[j].source_spans) = 0
           \/ GetDocumentSources(detect_input[i])
                  \cap GetDocumentSources(detect_input[j]) # {}) =>
              ~ShouldCreateComparisonRelationship(detect_input[i],
                                                  detect_input[j]).ok

\* conflict detection accepted a pair in a list that also holds two entities
\* of one type which share one document but not all
AcceptedPairsDisjointWitness ==
    /\ pc = "detected"
    /\ Len(conflict_pairs) >= 1
    /\ \E i, j \in DOMAIN detect_input :
          /\ i < j
          /\ detect_input[i].type = detect_input[j].type
          /\ GetDocumentSources(detect_input[i]) # GetDocumentSources(detect_input[j])
          /\ GetDocumentSources(detect_input[i])
                 \cap GetDocumentSources(detect_input[j]) # {}

\* the outcome of conflict detection on Example A: one accepted pair, and from
\* it exactly two compares_with relationships at confidence 0.8
ExampleAComparison ==
    /\ ShouldCreateComparisonRelationship(ExampleA1, ExampleA2).ok
    /\ (pc \in {"detected", "compared"} /\ detect_input = entities) =>
           /\ Len(conflict_pairs) = 1
           /\ conflict_pairs[1].entity1 = ExampleA1
           /\ conflict_pairs[1].entity2 = ExampleA2
    /\ (pc = "compared" /\ detect_input = entities) =>
           /\ ~comparison_raised
           /\ Len(relationships) = 2
           /\ \A r \in DOMAIN relationships :
                 /\ relationships[r].predicate = "compares_with"
                 /\ relationships[r].confidence = ComparisonConfidence
           /\ relationships[1].from_entity = ExampleA1.id
           /\ relationships[1].to_entity = ExampleA2.id
           /\ relationships[2].from_entity = ExampleA2.id
           /\ relationships[2].to_entity = ExampleA1.id

\* C10, as the specification states it: for "TensorFlow" (one span in doc A,
\* salience 0.9, Library, no embedding, no aliases) and "Tensorflow" (one span
\* in doc B, salience 0.5, Library, no embedding, no aliases) shouldMerge is
\* false, shouldCompare is true, and conflict detection on the two yields
\* exactly 2 compares_with relationships at confidence 0.8.
ExampleAAsStated ==
    entities = <<ExampleA1, ExampleA2>> =>
        /\ ~ShouldMergeEntities(ExampleA1, ExampleA2)
        /\ ExampleAComparison

\* C10: for the two entities of Example A shouldMerge is true, because the
\* two names are equal once lowercased and stripped (the direct name match of
\* the alias test), so canonicalize_entities merges them into one entity
\* named "TensorFlow"; shouldCompare on the two is true, and conflict
\* detection on the two as extracted yields exactly 2 compares_with
\* relationships at confidence 0.8.
ExampleAMergesAndCompares ==
    entities = <<ExampleA1, ExampleA2>> =>
        /\ ShouldMergeEntities(ExampleA1, ExampleA2)
        /\ NormalizeName(ExampleA1.name) = NormalizeName(ExampleA2.name)
        /\ pc = "canonicalized" =>
               /\ merge_groups = <<(<<1, 2>>)>>
               /\ Len(canonical_entities) = 1
               /\ canonical_entities[1].name = TensorFlow
        /\ ExampleAComparison

\* conflict detection and create_comparison_relationships ran on the two
\* entities of Example A as extracted
ExampleAMergesAndComparesWitness ==
    /\ entities = <<ExampleA1, ExampleA2>>
    /\ pc = "compared"
    /\ detect_input = entities
    /\ Len(relationships) = 2

(***************************************************************************)
(* Properties of _is_alias_match and _should_merge_entities                *)
(***************************************************************************)
\* the name and the declared aliases of an entity, normalized
NormalizedNames(e) ==
    {NormalizeName(e.name)} \cup {NormalizeName(a) : a \in Range(e.aliases)}

AliasMatchOf(e1, e2) == IsAliasMatch(e1.name, e2.name, e1.aliases, e2.aliases)

\* C11, as the specification states it: isAliasMatch is true whenever the
\* normalized (lowercased, punctuation-stripped) name-plus-alias sets of the
\* two sides intersect, so that shouldMerge is true for two entities of one
\* type whose sets intersect.
AliasMatchOnIntersection ==
    pc = "canonicalized" => \A i, j \in DOMAIN entities :
        NormalizedNames(entities[i]) \cap NormalizedNames(entities[j]) # {} =>
            /\ AliasMatchOf(entities[i], entities[j])
            /\ entities[i].type = entities[j].type =>
                   ShouldMergeEntities(entities[i], entities[j])

\* C11: isAliasMatch is true whenever the normalized name-plus-alias sets of
\* the two sides have a non-empty string in common; a string that
\* normalizes to the empty string is discarded and matches nothing. Two
\* names that differ only in letter case and hold a letter or digit match,
\* so shouldMerge is true for two entities of one type carrying them.
AliasMatchOnNonEmptyIntersection ==
    pc = "canonicalized" => \A i, j \in DOMAIN entities :
        /\ (NormalizedNames(entities[i]) \cap NormalizedNames(entities[j]))
               \ {<<>>} # {} =>
               /\ AliasMatchOf(entities[i], entities[j])
               /\ entities[i].type = entities[j].type =>
                      ShouldMergeEntities(entities[i], entities[j])
        /\ (NormalizedNames(entities[i]) = {<<>>}
                \/ NormalizedNames(entities[j]) = {<<>>}) =>
               ~AliasMatchOf(entities[i], entities[j])

\* a batch was canonicalized in which two entities of one type whose names
\* differ only in letter case were put into one group, next to an entity
\* whose name normalizes to the empty string
AliasMatchOnNonEmptyIntersectionWitness ==
    /\ pc = "canonicalized"
    /\ \E g \in DOMAIN merge_groups :
          \E i, j \in Range(merge_groups[g]) :
              /\ entities[i].name # entities[j].name
              /\ Lower(entities[i].name) = Lower(entities[j].name)
              /\ entities[i].embedding = <<>>
    /\ \E k \in DOMAIN entities : NormalizedNames(entities[k]) = {<<>>}

\* C12: _merge_entities raises CanonicalizeError on an empty group, and on a
\* group of one it returns the sole member with every field as it was: the
\* salience is not recomputed and the summary gets no suffix.
MergeOfEmptyAndSingleGroup ==
    pc = "merged" =>
        /\ Len(entities) = 0 => merged_entity = CanonicalizeError
        /\ Len(entities) = 1 => merged_entity = entities[1]

\* _merge_entities returned the sole member of a group, an entity seen in
\* two documents, for which a merge would add the bonus and the suffix
MergeOfEmptyAndSingleGroupWitness ==
    /\ pc = "merged"
    /\ Len(entities) = 1
    /\ Cardinality(GetDocumentSources(entities[1])) >= 2
    /\ merged_entity = entities[1]

(***************************************************************************)
(* Properties of the error handling                                        *)
(***************************************************************************)
\* C13: per-item isolation. If one pair of conflict detection raises an
\* exception, only that pair is skipped and the rest of the batch is still
\* processed: every other conflicting pair still has its relationships in
\* the output.
PerItemIsolation ==
    pc = "compared" =>
        \A k \in DOMAIN conflict_pairs :
            ~RelationshipRejected(conflict_pairs[k].entity1.id,
                                  conflict_pairs[k].entity2.id) =>
                \E r \in DOMAIN relationships :
                    /\ relationships[r].from_entity = conflict_pairs[k].entity1.id
                    /\ relationships[r].to_entity = conflict_pairs[k].entity2.id

\* C14: top-level fallback. If canonicalization raises, canonicalize_entities
\* returns the original list and the ingest pipeline goes on with the
\* original, unmerged entities; if conflict detection raises, ingestion goes
\* on with no comparison relationships; in both cases storage and broadcast
\* still run on what is left and the request succeeds.
TopLevelFallback ==
    pc = "ingested" =>
        /\ ingestion.success
        /\ ingestion.canonicalization_failed =>
               ingestion.canonical_entities = entities
        /\ ingestion.conflict_detection_failed =>
               ingestion.comparison_relationships = <<>>
        /\ ingestion.stored_entities = ingestion.canonical_entities
        /\ ingestion.broadcast_nodes = ingestion.canonical_entities
        /\ ingestion.stored_relationships = ingestion.comparison_relationships
        /\ ingestion.broadcast_edges = ingestion.comparison_relationships

\* an ingestion in which canonicalization failed and, on the unmerged
\* entities, conflict detection failed as well
TopLevelFallbackWitness ==
    /\ pc = "ingested"
    /\ ingestion.canonicalization_failed
    /\ ingestion.conflict_detection_failed
    /\ Len(ingestion.stored_entities) >= 2
    /\ ingestion.success

\* C15: similarity-search failures are fail-open. Whether the similarity
\* search raises or the handling of one of its results does,
\* find_similar_entities returns the candidates collected so far (none if
\* the search itself failed), and canonicalize_entity returns an entity: the
\* input entity unchanged when no candidate was collected.
SimilaritySearchFailOpen ==
    pc = "entity_canonicalized" =>
        LET handled ==
                IF Len(entity_call.entity.embedding) = 0 THEN 0
                ELSE IF entity_call.failure_at = 0 THEN 0
                ELSE IF entity_call.failure_at <= Len(entity_call.vector_results)
                THEN entity_call.failure_at - 1
                ELSE Len(entity_call.vector_results)
        IN  /\ entity_call.similar_entities =
                   SelectSeq(SubSeq(entity_call.vector_results, 1, handled),
                             LAMBDA e : /\ e.id # entity_call.entity.id
                                        /\ ShouldMergeEntities(entity_call.entity, e))
            /\ Len(entity_call.similar_entities) = 0 =>
                   entity_call.returned = entity_call.entity
            /\ entity_call.returned \in
                   {entity_call.entity,
                    MergeEntities(<<entity_call.entity>>
                                  \o entity_call.similar_entities)}

\* a call in which the handling of the second result failed after the first
\* result had been collected, and the entity was merged with it
SimilaritySearchFailOpenWitness ==
    /\ pc = "entity_canonicalized"
    /\ entity_call.failure_at = 2
    /\ Len(entity_call.vector_results) = 2
    /\ Len(entity_call.similar_entities) = 1
    /\ ShouldMergeEntities(entity_call.entity, entity_call.vector_results[2])
    /\ entity_call.returned # entity_call.entity

VectorSimilar(e1, e2) ==
    /\ Len(e1.embedding) > 0
    /\ Len(e2.embedding) > 0
    /\ CosineAtLeast(e1.embedding, e2.embedding, SimilarityThreshold)

\* C17: the decision order of shouldMerge for entities of one type: (true,
\* vector similarity) if both have a non-empty embedding and the cosine
\* similarity is >= 0.86; otherwise, also when both have embeddings but the
\* similarity is below the threshold, (true, alias/acronym match) if
\* isAliasMatch holds; otherwise (false, no match).
ShouldMergeDecisionOrder ==
    pc = "canonicalized" =>
        \A i, j \in DOMAIN entities :
            entities[i].type = entities[j].type =>
                LET should_merge == ShouldMergeEntities(entities[i], entities[j])
                    reason == ShouldMergeReason(entities[i], entities[j])
                IN  IF VectorSimilar(entities[i], entities[j])
                    THEN should_merge /\ reason = "Vector similarity"
                    ELSE IF AliasMatchOf(entities[i], entities[j])
                    THEN should_merge /\ reason = "Alias/acronym match"
                    ELSE ~should_merge /\ reason = "No match criteria met"

\* a batch was canonicalized in which two entities that both have an
\* embedding, with a similarity below the threshold, were grouped by their
\* names, next to a pair that is similar by its embeddings and by its names
ShouldMergeDecisionOrderWitness ==
    /\ pc = "canonicalized"
    /\ \E g \in DOMAIN merge_groups :
          \E i, j \in Range(merge_groups[g]) :
              /\ i < j
              /\ Len(entities[i].embedding) > 0
              /\ Len(entities[j].embedding) > 0
              /\ ~VectorSimilar(entities[i], entities[j])
              /\ ShouldMergeReason(entities[i], entities[j]) = "Alias/acronym match"
    /\ \E i, j \in DOMAIN entities :
          /\ i # j
          /\ VectorSimilar(entities[i], entities[j])
          /\ AliasMatchOf(entities[i], entities[j])

\* C18: in _merge_entities on a group of size >= 2 the primary is the member
\* with the highest salience, and of the members with that salience the one
\* that comes first in the group as given; the id, the name, the type and
\* the embedding of the merged entity are those of the primary.
PrimaryIsFirstOfHighestSalience ==
    (pc = "merged" /\ Len(entities) >= 2) =>
        /\ merged_entity.id = entities[PrimaryPosition].id
        /\ merged_entity.name = entities[PrimaryPosition].name
        /\ merged_entity.type = entities[PrimaryPosition].type
        /\ merged_entity.embedding = entities[PrimaryPosition].embedding

\* a group was merged whose second and third member share the highest
\* salience and differ in name and embedding, the first member being lower
PrimaryIsFirstOfHighestSalienceWitness ==
    /\ pc = "merged"
    /\ Len(entities) = 3
    /\ entities[2].salience = entities[3].salience
    /\ RatLess(entities[1].salience, entities[2].salience)
    /\ entities[2].name # entities[3].name
    /\ entities[2].embedding # entities[3].embedding
    /\ merged_entity.name = entities[2].name

RECURSIVE SpanCount(_)
SpanCount(ents) ==
    IF Len(ents) = 0 THEN 0
    ELSE Len(ents[1].source_spans) + SpanCount(Tail(ents))

\* the positions of the merged span list that hold the spans of member i
\* when its block begins after position offset[i]
SpanBlock(offset, i) ==
    (offset[i] + 1)..(offset[i] + Len(entities[i].source_spans))

\* C20: the source spans of a merged entity are the concatenation of the
\* members' spans with the spans of the primary first: the list is as long
\* as the members' span counts together, and it splits into one block per
\* member, the blocks not overlapping, each holding that member's spans in
\* their own order, the block of the primary at the start.
MergedSpansAreConcatenation ==
    (pc = "merged" /\ Len(entities) >= 2) =>
        /\ Len(merged_entity.source_spans) = SpanCount(entities)
        /\ \E offset \in [DOMAIN entities -> 0..SpanCount(entities)] :
              /\ offset[PrimaryPosition] = 0
              /\ \A i \in DOMAIN entities :
                    /\ SpanBlock(offset, i)
                           \subseteq DOMAIN merged_entity.source_spans
                    /\ \A n \in DOMAIN entities[i].source_spans :
                           merged_entity.source_spans[offset[i] + n]
                               = entities[i].source_spans[n]
              /\ \A i, j \in DOMAIN entities :
                    i # j => SpanBlock(offset, i) \cap SpanBlock(offset, j) = {}

\* a group whose primary is not its first member and has spans, with
\* another member that has several spans, has been merged
MergedSpansAreConcatenationWitness ==
    /\ pc = "merged"
    /\ Len(entities) >= 2
    /\ PrimaryPosition # 1
    /\ Len(entities[PrimaryPosition].source_spans) >= 1
    /\ \E i \in DOMAIN entities :
          /\ i # PrimaryPosition
          /\ Len(entities[i].source_spans) >= 2
    /\ Len(merged_entity.source_spans) >= 3

\* weight(m) = max(1, number of source spans of m)
WeightOf(m) == IF Len(m.source_spans) >= 1 THEN Len(m.source_spans) ELSE 1

RECURSIVE WeightedSalienceOf(_)
WeightedSalienceOf(ents) ==
    IF Len(ents) = 0 THEN [n |-> 0, d |-> 1]
    ELSE LET x == WeightedSalienceOf(Tail(ents))
             w == WeightOf(ents[1])
         IN  [n |-> w * ents[1].salience.n * x.d + x.n * ents[1].salience.d,
              d |-> ents[1].salience.d * x.d]

RECURSIVE TotalWeightOf(_)
TotalWeightOf(ents) ==
    IF Len(ents) = 0 THEN 0 ELSE WeightOf(ents[1]) + TotalWeightOf(Tail(ents))

\* the number of distinct doc_id over the spans of the merged entity
DistinctDocCount ==
    Cardinality({merged_entity.source_spans[k].doc_id :
                    k \in DOMAIN merged_entity.source_spans})

\* base + crossDocBonus as a fraction over the common denominator
\* 20 * d * TotalWeight, with the bonus in twentieths
UnclampedSalience ==
    LET sum   == WeightedSalienceOf(entities)
        total == TotalWeightOf(entities)
        bonus == IF DistinctDocCount - 1 >= 2 THEN 2 ELSE DistinctDocCount - 1
    IN  [n |-> 20 * sum.n + bonus * sum.d * total, d |-> 20 * sum.d * total]

\* C21: for every group of size >= 2 the merged salience is
\* min(1.0, base + crossDocBonus), where base is the average of the members'
\* saliences weighted by max(1, number of source spans) and crossDocBonus is
\* min(0.1, (distinctDocCount - 1) * 0.05).
MergedSalienceArithmetic ==
    (pc = "merged" /\ Len(entities) >= 2) =>
        IF UnclampedSalience.n >= UnclampedSalience.d
        THEN merged_entity.salience.n = merged_entity.salience.d
        ELSE merged_entity.salience.n * UnclampedSalience.d
                 = UnclampedSalience.n * merged_entity.salience.d

\* a group of members with different numbers of spans, seen in four
\* documents, so that the cap of the bonus applies, has been merged
MergedSalienceArithmeticWitness ==
    /\ pc = "merged"
    /\ Len(entities) >= 2
    /\ DistinctDocCount >= 4
    /\ \E i, j \in DOMAIN entities : WeightOf(entities[i]) # WeightOf(entities[j])
    /\ RatLess(merged_entity.salience, [n |-> 1, d |-> 1])

\* C22: the summary of a merged entity is the summary of the primary, with
\* " (appears in N documents)" appended exactly when the number N of distinct
\* doc_id over the merged spans is greater than 1, and unchanged otherwise.
MergedSummarySuffix ==
    (pc = "merged" /\ Len(entities) >= 2) =>
        IF DistinctDocCount > 1
        THEN merged_entity.summary =
                 entities[PrimaryPosition].summary
                 \o <<" ","(","a","p","p","e","a","r","s"," ","i","n"," ">>
                 \o IntToStr(DistinctDocCount)
                 \o <<" ","d","o","c","u","m","e","n","t","s",")">>
        ELSE merged_entity.summary = entities[PrimaryPosition].summary

\* a group whose primary has a summary has been merged, its spans being
\* from three documents
MergedSummarySuffixWitness ==
    /\ pc = "merged"
    /\ Len(entities) >= 2
    /\ DistinctDocCount = 3
    /\ Len(entities[PrimaryPosition].summary) > 0
    /\ Len(merged_entity.summary)
           = Len(entities[PrimaryPosition].summary) + 25

(***************************************************************************)
(* Properties of the conflict detector                                     *)
(***************************************************************************)
\* C23: _extract_conflicting_attributes returns exactly the flags whose
\* condition holds: the name-variation flag iff the two names differ, be it
\* only in letter case, and their lexical similarity exceeds 0.7; the
\* salience-difference flag iff |salience1 - salience2| > 0.3; the
\* summary-difference flag iff both summaries are longer than 10 characters
\* and their lexical similarity is below 0.5.
ExtractedFlagsAsStated ==
    pc = "extracted" =>
        LET entity1 == detector_call.entity1
            entity2 == detector_call.entity2
            flags   == Range(detector_call.conflicts)
        IN  /\ "Name variation" \in flags <=>
                  /\ entity1.name # entity2.name
                  /\ RatLess([n |-> 7, d |-> 10],
                             Ratio(Lower(entity1.name), Lower(entity2.name)))
            /\ "Salience difference" \in flags <=>
                  RatLess([n |-> 3, d |-> 10],
                          RatAbs(RatSub(entity1.salience, entity2.salience)))
            /\ "Summary difference" \in flags <=>
                  /\ Len(entity1.summary) > 10
                  /\ Len(entity2.summary) > 10
                  /\ RatLess(Ratio(Lower(entity1.summary), Lower(entity2.summary)),
                             [n |-> 1, d |-> 2])

\* the document sets of the two entities _should_create_comparison_relationship
\* was called on
DocsOfCall(entity) ==
    {entity.source_spans[k].doc_id : k \in DOMAIN entity.source_spans}

\* C24: for two entities of the same type with non-empty, disjoint document
\* sets the decision is to compare iff there is a conflict and the similarity
\* s of the lowercased names has s >= 0.5, or s > 0.3 with two conflicts or
\* more; a rejection made before the conflicts are computed (types differ, a
\* side without document, a shared document) returns no conflicts.
ShouldCompareThresholds ==
    pc = "decided" =>
        LET entity1 == detector_call.entity1
            entity2 == detector_call.entity2
            result  == detector_call.result
            docs1   == DocsOfCall(entity1)
            docs2   == DocsOfCall(entity2)
        IN  IF /\ entity1.type = entity2.type
               /\ docs1 # {}
               /\ docs2 # {}
               /\ docs1 \cap docs2 = {}
            THEN LET conflicts == ExtractConflictingAttributes(entity1, entity2)
                     s == Ratio(Lower(entity1.name), Lower(entity2.name))
                 IN  result.ok <=>
                         /\ Len(conflicts) > 0
                         /\ \/ 2 * s.n >= s.d /\ Len(conflicts) >= 1
                            \/ 10 * s.n > 3 * s.d /\ Len(conflicts) >= 2
            ELSE ~result.ok /\ result.conflicts = <<>>

\* the decision was to compare two entities whose names have a similarity
\* between 0.3 and 0.5, on two conflicts
ShouldCompareThresholdsWitness ==
    /\ pc = "decided"
    /\ detector_call.result.ok
    /\ Len(detector_call.result.conflicts) >= 2
    /\ RatLess(Ratio(Lower(detector_call.entity1.name),
                      Lower(detector_call.entity2.name)), [n |-> 1, d |-> 2])

\* the evidence create_comparison_relationships is to build for a side,
\* with the given bound on the length of the quoted part
EvidenceItemOk(item, entity, label, quoted) ==
    /\ item.doc_id = entity.source_spans[1].doc_id
    /\ item.offset = entity.source_spans[1].start
    /\ Len(item.quote) = Len(label) + 2 + Len(entity.name) + 3 + quoted
    /\ SubSeq(item.quote, 1, Len(label)) = label
    /\ SubSeq(item.quote, Len(label) + 3, Len(label) + 2 + Len(entity.name))
           = entity.name
    /\ SubSeq(item.quote, Len(item.quote) - quoted + 1, Len(item.quote))
           = SubSeq(entity.summary, 1, quoted)

\* both relationships of accepted pair k carry the same evidence, with one
\* item per side that has source spans, taken from its first source span
EvidenceOfPairOk(k) ==
    LET pair     == conflict_pairs[k]
        evidence == relationships[2 * k - 1].evidence
        sides    == <<pair.entity1, pair.entity2>>
        labels   == <<(<<"E","n","t","i","t","y"," ","1">>),
                      (<<"E","n","t","i","t","y"," ","2">>)>>
        with     == {i \in 1..2 : Len(sides[i].source_spans) > 0}
        item(i)  == evidence[Cardinality({j \in with : j <= i})]
    IN  /\ relationships[2 * k].evidence = evidence
        /\ Len(evidence) = Cardinality(with)
        /\ \A i \in with :
              EvidenceItemOk(item(i), sides[i], labels[i],
                             IF Len(sides[i].summary) < 100
                             THEN Len(sides[i].summary) ELSE 100)

\* C25, as the specification states it: for each accepted pair both
\* relationships carry the same evidence list, one item per side that has
\* source spans, with doc_id and offset of that side's first source span,
\* and a quote of at most 100 characters, however long name and summary are.
EvidenceQuoteWithinLimit ==
    (pc = "compared" /\ ~comparison_raised) =>
        \A k \in DOMAIN conflict_pairs :
            /\ EvidenceOfPairOk(k)
            /\ \A r \in {2 * k - 1, 2 * k} :
                  \A i \in DOMAIN relationships[r].evidence :
                      Len(relationships[r].evidence[i].quote) <= 100

\* C25: for each accepted pair both relationships carry the same evidence
\* list, one item per side that has source spans, with doc_id and offset of
\* that side's first source span, and the quote "<label>: <name> - " followed
\* by the first 100 characters of the summary: only the quoted part of the
\* summary is at most 100 characters long.
EvidenceQuotesTruncatedSummary ==
    (pc = "compared" /\ ~comparison_raised) =>
        \A k \in DOMAIN conflict_pairs : EvidenceOfPairOk(k)

\* relationships were created for a pair one side of which has a summary of
\* more than 100 characters: its quote is longer than 100 characters
EvidenceQuotesTruncatedSummaryWitness ==
    /\ pc = "compared"
    /\ ~comparison_raised
    /\ Len(relationships) = 2
    /\ Len(conflict_pairs[1].entity1.summary) > 100
    /\ Len(relationships[1].evidence) = 2
    /\ Len(relationships[1].evidence[1].quote) > 100

(***************************************************************************)
(* Properties of ingestions that share the stores                          *)
(***************************************************************************)
\* C26: while the batch of a request is canonicalized the similarity search
\* is queried once for every entity of the batch that has an embedding, and
\* through it an entity of the batch is reconciled with a mergeable entity
\* that an earlier, completed request has stored: the canonical entities of
\* the batch hold one that has the spans of both.
BatchReconciledWithStore ==
    [][(/\ ingestions[1].stage = "done"
        /\ ingestions[2].stage = "extracted"
        /\ ingestions'[2].stage = "canonicalized") =>
           LET all_entities == ingestions[2].all_entities
           IN  /\ Len(similarity_queries') =
                      Cardinality({k \in DOMAIN all_entities :
                                      Len(all_entities[k].embedding) > 0})
               /\ \A k \in DOMAIN all_entities :
                      \A stored \in store.entities :
                          ShouldMergeEntities(all_entities[k], stored) =>
                              \E c \in Range(ingestions'[2].canonical_entities) :
                                  Range(stored.source_spans)
                                  \cup Range(all_entities[k].source_spans)
                                      \subseteq Range(c.source_spans)]_vars

\* the ids of the entities of a list
IdsOf(list) == {list[k].id : k \in DOMAIN list}

\* C27: nothing in the ingest pipeline keeps two requests from storing
\* mergeable entities apart. In every interleaving of the two requests,
\* the canonical entities of a request have ids of its own batch, whatever
\* is stored, and once both requests are done every canonical entity of one
\* whose id the other does not use is stored as it is, next to those of the
\* other, be the two mergeable or not.
IngestionsStoredApart ==
    /\ \A i \in DOMAIN ingestions :
          IdsOf(ingestions[i].canonical_entities)
              \subseteq IdsOf(ingestions[i].all_entities)
    /\ (/\ ingestions # <<>>
        /\ \A i \in DOMAIN ingestions : ingestions[i].stage = "done") =>
           \A i, j \in DOMAIN ingestions :
               \A e \in Range(ingestions[i].canonical_entities) :
                   (i # j /\ e.id \notin IdsOf(ingestions[j].canonical_entities))
                       => e \in store.entities

\* both requests are done and the store holds, under different ids, an
\* entity of the first and an entity of the second that should merge
IngestionsStoredApartWitness ==
    /\ ingestions # <<>>
    /\ \A i \in DOMAIN ingestions : ingestions[i].stage = "done"
    /\ \E e1 \in Range(ingestions[1].all_entities) :
          \E e2 \in Range(ingestions[2].all_entities) :
              /\ e1.id # e2.id
              /\ ShouldMergeEntities(e1, e2)
              /\ e1 \in store.entities
              /\ e2 \in store.entities

(***************************************************************************)
(* Properties of analyze_cross_document_patterns                           *)
(***************************************************************************)
\* the number of compares_with relationships given that have the entity
\* as from_entity or as to_entity
IncidentComparisons(entity_id) ==
    Cardinality({k \in DOMAIN analysis_input.relationships :
                    /\ analysis_input.relationships[k].predicate = "compares_with"
                    /\ \/ analysis_input.relationships[k].from_entity = entity_id
                       \/ analysis_input.relationships[k].to_entity = entity_id})

\* C28: the report lists at most 5 most-conflicted entities, in
\* non-increasing order of conflict_count, the conflict_count of each being
\* the number of compares_with relationships it is an end of; no entity of
\* the input list that is left out has a higher count than one that is
\* listed; and comparison_relationships is the number of compares_with
\* relationships given.
MostConflictedRanking ==
    pc = "analysed" =>
        LET report == analysis.most_conflicted_entities
        IN  /\ Len(report) <= 5
            /\ \A k \in 1..(Len(report) - 1) :
                  report[k].conflict_count >= report[k + 1].conflict_count
            /\ \A k \in DOMAIN report :
                  /\ report[k].entity_id \in IdsOf(analysis_input.entities)
                  /\ report[k].conflict_count
                         = IncidentComparisons(report[k].entity_id)
            /\ \A e \in Range(analysis_input.entities) :
                  e.id \notin {report[k].entity_id : k \in DOMAIN report} =>
                      \A k \in DOMAIN report :
                          IncidentComparisons(e.id) <= report[k].conflict_count
            /\ analysis.comparison_relationships =
                  Cardinality({k \in DOMAIN analysis_input.relationships :
                                  analysis_input.relationships[k].predicate
                                      = "compares_with"})

\* a report of five entities with different counts, made while a further
\* entity of the list is an end of a comparison and a relationship with
\* another predicate was given
MostConflictedRankingWitness ==
    /\ pc = "analysed"
    /\ Len(analysis.most_conflicted_entities) = 5
    /\ analysis.most_conflicted_entities[1].conflict_count
           > analysis.most_conflicted_entities[5].conflict_count
    /\ \E e \in Range(analysis_input.entities) :
          /\ IncidentComparisons(e.id) >= 1
          /\ \A k \in 1..5 :
                analysis.most_conflicted_entities[k].entity_id # e.id
    /\ analysis.comparison_relationships < Len(analysis_input.relationships)

(***************************************************************************)
(* Properties of ConnectionManager                                         *)
(***************************************************************************)
\* C29: every call of send_personal_message terminates: when send_text
\* raises, the client is removed from the active connections, the call
\* returns, and the lock is free afterwards.
SendPersonalMessageTerminates ==
    \A t \in Tasks :
        (tasks[t].op = "send_personal_message" /\ tasks[t].pc = "disconnect")
            ~> (/\ tasks[t].pc = "idle"
                /\ lock # t)

(***************************************************************************)
(* Properties of the relationships of detect_and_create_comparisons        *)
(***************************************************************************)
\* C30: no relationship that conflict detection returns goes from an entity
\* to itself, whatever the entity list is, lists with two entities of the
\* same id from disjoint documents included.
NoSelfLoopReturned ==
    pc = "compared" =>
        \A k \in DOMAIN relationships :
            relationships[k].from_entity # relationships[k].to_entity

\* conflict detection has run on a list with two entities of the same id
\* whose documents are disjoint and which it has paired as a conflict
NoSelfLoopReturnedWitness ==
    /\ pc = "compared"
    /\ \E i, j \in DOMAIN detect_input :
          /\ i < j
          /\ detect_input[i].id = detect_input[j].id
          /\ GetDocumentSources(detect_input[i])
                 \cap GetDocumentSources(detect_input[j]) = {}
          /\ \E k \in DOMAIN conflict_pairs :
                /\ conflict_pairs[k].entity1 = detect_input[i]
                /\ conflict_pairs[k].entity2 = detect_input[j]

=============================================================================
